---------------------------- MODULE Spec2Model ----------------------------
(***************************************************************************)
(* A model of array-box's translation module, src/src/primitive-translate.js *)
(*                                                                         *)
(* Text is a sequence of UTF-16 code units, the unit JavaScript strings    *)
(* index, compare and measure (.length) by.  A code unit is written as the *)
(* character itself when it is a plain ASCII letter, digit or sign, and as *)
(* "uXXXX" (its code in hex) otherwise: "u0022" is the double quote,       *)
(* "u005C" the backslash, "u000A" the newline.  Every string literal of    *)
(* the source file is transcribed code unit by code unit from the file's   *)
(* text as it decodes (UTF-8): the APL comment token of the file is the    *)
(* one unit U+00E2, its left-argument token the two units U+00E2 U+00BA,   *)
(* its negative prefix the two units U+00C2 U+00AF, and so on.             *)
(***************************************************************************)
EXTENDS Integers, Sequences, FiniteSets, TLC

VARIABLES
    primitiveGroups,    \* the correspondence table (a mutable exported object)
    translationCache,   \* Map: <<fromLang, toLang>> -> [forward, backward]
    op,                 \* the exported function being called
    input,              \* how the text of the call was put together
    code,               \* argument: the text
    fromLang,           \* argument: source language id
    toLang,             \* argument: target language id
    pc,                 \* "call" before the function runs, "return" after
    ret,                \* [threw, value]: outcome of the call
    cleared,            \* history: the cache was cleared after the last table change
    earlier,            \* history: the keys cached at the last table change
    permalinks,         \* servers/permalink-server.cjs: the store, code -> content
    response,           \* the request the server handled last, and its answer
    issued,             \* history: the ids answered with success, with their content
    language,           \* keymap.js: the language the handler was created for
    prefixActive,       \* the handler's prefixActive
    element,            \* the input element: its value
    event,              \* the keydown handled last, and what the handler did with it
    armed               \* history: the press before was the prefix key, prefix inactive

translateVars == << primitiveGroups, translationCache, op, input, code, fromLang,
                    toLang, pc, ret, cleared, earlier >>
serverVars == << permalinks, response, issued >>
keyVars == << language, prefixActive, element, event, armed >>

vars == << translateVars, serverVars, keyVars >>

-----------------------------------------------------------------------------
(* The permalink server and the keyboard handler before anything reaches them *)

NoBody == [json |-> FALSE, lang |-> "", code |-> "", result |-> "", resultHtml |-> ""]
NoRequest == [method |-> "none", path |-> "", code |-> << >>, accept |-> "",
              body |-> NoBody]
NoResponse == [request |-> NoRequest, status |-> 0, body |-> [success |-> FALSE]]

\* let permalinks = loadPermalinks(), with no storage file yet
ServerAtLoad ==
    /\ permalinks = << >>
    /\ response = NoResponse
    /\ issued = {}

NoEvent ==
    [key |-> "", code |-> "", shiftKey |-> FALSE, ctrlKey |-> FALSE,
     altKey |-> FALSE, metaKey |-> FALSE,
     defaultPrevented |-> FALSE, inserted |-> << >>,
     afterPrefix |-> FALSE, prefixPrevented |-> FALSE]
Unarmed == [set |-> FALSE, defaultPrevented |-> FALSE]

\* createKeyboardHandler(inputElement, lang) on an empty element
HandlerAtCreation(lang) ==
    /\ language = lang
    /\ prefixActive = FALSE
    /\ element = [value |-> << >>]
    /\ event = NoEvent
    /\ armed = Unarmed

-----------------------------------------------------------------------------
(* Bounds of the model *)

\* most repetitions of a token in the text of a translatePrimitives call
MaxTokens == 2
\* most numbers in one numeric run of a translateArrayLiterals call
MaxRun == 3
\* the length of the element's value from which no key is pressed any more
MaxTyped == 3
\* most permalinks the store of the permalink server holds
MaxStored == 2
\* most entries the cache holds in the cache specification
MaxCached == 2

-----------------------------------------------------------------------------
(* JavaScript values: a string, null, or undefined *)

Str(s) == [kind |-> "string", chars |-> s]
Null == [kind |-> "null", chars |-> << >>]
Undefined == [kind |-> "undefined", chars |-> << >>]

\* the six language ids of the table, and an id that is none of them
Languages == {"apl", "bqn", "uiua", "j", "kap", "tinyapl"}
UnknownLang == "xx"
LangArgs == Languages \cup {UnknownLang}

RECURSIVE Flatten(_)
Flatten(ss) == IF ss = << >> THEN << >> ELSE Head(ss) \o Flatten(Tail(ss))

\* code.substring(i, i + Len(t)) === t, with i a 1-based position
StartsWithAt(text, i, t) ==
    /\ i + Len(t) - 1 <= Len(text)
    /\ \A k \in 1..Len(t) : text[i + k - 1] = t[k]

-----------------------------------------------------------------------------
(* primitiveGroups *)

ConceptOrder ==
    << "stringDelimiter", "comment", "leftArg", "rightArg", "leftOperand",
       "rightOperand", "selfRef", "iota", "tally", "shape",
       "reverse", "transpose", "enclose", "first", "unique",
       "where", "gradeUp", "gradeDown", "ravel", "multiply",
       "reduce", "scan", "table", "commute" >>

PrimitiveGroupsInit ==
    ("stringDelimiter" :>
        [ apl |-> Str(<<"'">>),
          bqn |-> Str(<<"u0022">>),
          uiua |-> Str(<<"u0022">>),
          j |-> Str(<<"'">>),
          kap |-> Str(<<"'">>),
          tinyapl |-> Str(<<"u0022">>) ])
    @@ ("comment" :>
        [ apl |-> Str(<<"u00E2">>),
          bqn |-> Str(<<"#">>),
          uiua |-> Str(<<"#">>),
          j |-> Str(<<"N", "B", ".">>),
          kap |-> Str(<<"u00E2">>),
          tinyapl |-> Str(<<"u00E2">>) ])
    @@ ("leftArg" :>
        [ apl |-> Str(<<"u00E2", "u00BA">>),
          bqn |-> Str(<<"u011F", "u2022", "u00A8">>),
          uiua |-> Null,
          j |-> Null,
          kap |-> Str(<<"u00E2", "u00BA">>),
          tinyapl |-> Str(<<"u00E2", "u00BA">>) ])
    @@ ("rightArg" :>
        [ apl |-> Str(<<"u00E2", "u00B5">>),
          bqn |-> Str(<<"u011F", "u2022", "u00A9">>),
          uiua |-> Null,
          j |-> Null,
          kap |-> Str(<<"u00E2", "u00B5">>),
          tinyapl |-> Str(<<"u00E2", "u00B5">>) ])
    @@ ("leftOperand" :>
        [ apl |-> Str(<<"u00E2", "u00BA", "u00E2", "u00BA">>),
          bqn |-> Str(<<"u011F", "u201D", "u00BD">>),
          uiua |-> Null,
          j |-> Null,
          kap |-> Null,
          tinyapl |-> Str(<<"u00E2", "u00B6", "u00E2", "u00B6">>) ])
    @@ ("rightOperand" :>
        [ apl |-> Str(<<"u00E2", "u00B5", "u00E2", "u00B5">>),
          bqn |-> Str(<<"u011F", "u201D", "u00BE">>),
          uiua |-> Null,
          j |-> Null,
          kap |-> Null,
          tinyapl |-> Str(<<"u00E2", "u00B9", "u00E2", "u00B9">>) ])
    @@ ("selfRef" :>
        [ apl |-> Str(<<"u00E2", "u02C6", "u2021">>),
          bqn |-> Str(<<"u011F", "u2022", "u0160">>),
          uiua |-> Null,
          j |-> Str(<<"$", ":">>),
          kap |-> Str(<<"u00E2", "u02C6", "u2021">>),
          tinyapl |-> Str(<<"u00E2", "u02C6", "u2021">>) ])
    @@ ("iota" :>
        [ apl |-> Str(<<"u00E2", "u00B3">>),
          bqn |-> Str(<<"u00E2", "u2020", "u2022">>),
          uiua |-> Str(<<"u00E2", "u2021", "u00A1">>),
          j |-> Str(<<"i", ".">>),
          kap |-> Str(<<"u00E2", "u00B3">>),
          tinyapl |-> Str(<<"u00E2", "u00B3">>) ])
    @@ ("tally" :>
        [ apl |-> Str(<<"u00E2", "u2030", "u00A2">>),
          bqn |-> Str(<<"u00E2", "u2030", "u00A0">>),
          uiua |-> Str(<<"u00E2", "u00A7", "u00BB">>),
          j |-> Str(<<"#">>),
          kap |-> Str(<<"u00E2", "u2030", "u00A2">>),
          tinyapl |-> Str(<<"u00E2", "u2030", "u00A2">>) ])
    @@ ("shape" :>
        [ apl |-> Str(<<"u00E2", "u00B4">>),
          bqn |-> Str(<<"u00E2", "u2030", "u00A2">>),
          uiua |-> Str(<<"u00E2", "u2013", "u00B3">>),
          j |-> Str(<<"$">>),
          kap |-> Str(<<"u00E2", "u00B4">>),
          tinyapl |-> Str(<<"u00E2", "u00B4">>) ])
    @@ ("reverse" :>
        [ apl |-> Str(<<"u00E2", "u0152", "u00BD">>),
          bqn |-> Str(<<"u00E2", "u0152", "u00BD">>),
          uiua |-> Str(<<"u00E2", "u2021", "u0152">>),
          j |-> Str(<<"|", ".">>),
          kap |-> Str(<<"u00E2", "u0152", "u00BD">>),
          tinyapl |-> Str(<<"u00E2", "u0152", "u00BD">>) ])
    @@ ("transpose" :>
        [ apl |-> Str(<<"u00E2", "u2030">>),
          bqn |-> Str(<<"u00E2", "u2030">>),
          uiua |-> Str(<<"u00E2", "u2030">>),
          j |-> Str(<<"|", ":">>),
          kap |-> Str(<<"u00E2", "u2030">>),
          tinyapl |-> Str(<<"u00E2", "u2030">>) ])
    @@ ("enclose" :>
        [ apl |-> Str(<<"u00E2", "u0160", "u201A">>),
          bqn |-> Str(<<"<">>),
          uiua |-> Str(<<"u00E2", "u2013", "u00A1">>),
          j |-> Str(<<"<">>),
          kap |-> Str(<<"u00E2", "u0160", "u201A">>),
          tinyapl |-> Str(<<"u00E2", "u0160", "u201A">>) ])
    @@ ("first" :>
        [ apl |-> Str(<<"u00E2", "u0160", "u0192">>),
          bqn |-> Str(<<"u00E2", "u0160", "u2018">>),
          uiua |-> Str(<<"u00E2", "u0160", "u00A2">>),
          j |-> Str(<<">">>),
          kap |-> Str(<<"u00E2", "u0160", "u0192">>),
          tinyapl |-> Str(<<"u00E2", "u0160", "u0192">>) ])
    @@ ("unique" :>
        [ apl |-> Str(<<"u00E2", "u02C6", "u00AA">>),
          bqn |-> Str(<<"u00E2", "u00B7">>),
          uiua |-> Str(<<"u00E2", "u2014", "u00B4">>),
          j |-> Str(<<"~", ".">>),
          kap |-> Str(<<"u00E2", "u02C6", "u00AA">>),
          tinyapl |-> Str(<<"u00E2", "u02C6", "u00AA">>) ])
    @@ ("where" :>
        [ apl |-> Str(<<"u00E2", "u00B8">>),
          bqn |-> Str(<<"/">>),
          uiua |-> Str(<<"u00E2", "u0160", "u0161">>),
          j |-> Str(<<"I", ".">>),
          kap |-> Str(<<"u00E2", "u00B8">>),
          tinyapl |-> Str(<<"u00E2", "u00B8">>) ])
    @@ ("gradeUp" :>
        [ apl |-> Str(<<"u00E2", "u2039">>),
          bqn |-> Str(<<"u00E2", "u2039">>),
          uiua |-> Str(<<"u00E2">>),
          j |-> Str(<<"/", ":">>),
          kap |-> Str(<<"u00E2", "u2039">>),
          tinyapl |-> Str(<<"u00E2", "u2039">>) ])
    @@ ("gradeDown" :>
        [ apl |-> Str(<<"u00E2", "u2019">>),
          bqn |-> Str(<<"u00E2", "u2019">>),
          uiua |-> Str(<<"u00E2", "u2013">>),
          j |-> Str(<<"u005C", ":">>),
          kap |-> Str(<<"u00E2", "u2019">>),
          tinyapl |-> Str(<<"u00E2", "u2019">>) ])
    @@ ("ravel" :>
        [ apl |-> Str(<<",">>),
          bqn |-> Str(<<"u00E2", "u00A5", "u0160">>),
          uiua |-> Str(<<"u00E2", "u2122", "u00AD">>),
          j |-> Str(<<",">>),
          kap |-> Str(<<",">>),
          tinyapl |-> Str(<<",">>) ])
    @@ ("multiply" :>
        [ apl |-> Str(<<"u00C3", "u2014">>),
          bqn |-> Str(<<"u00C3", "u2014">>),
          uiua |-> Str(<<"u00C3", "u2014">>),
          j |-> Str(<<"*">>),
          kap |-> Str(<<"u00C3", "u2014">>),
          tinyapl |-> Str(<<"u00C3", "u2014">>) ])
    @@ ("reduce" :>
        [ apl |-> Str(<<"/">>),
          bqn |-> Str(<<"u00C2", "u00B4">>),
          uiua |-> Str(<<"/">>),
          j |-> Str(<<"/">>),
          kap |-> Str(<<"/">>),
          tinyapl |-> Str(<<"/">>) ])
    @@ ("scan" :>
        [ apl |-> Str(<<"u005C">>),
          bqn |-> Str(<<"u0060">>),
          uiua |-> Str(<<"u005C">>),
          j |-> Str(<<"u005C">>),
          kap |-> Str(<<"u005C">>),
          tinyapl |-> Str(<<"u005C">>) ])
    @@ ("table" :>
        [ apl |-> Str(<<"u00E2", "u02C6", "u02DC", ".">>),
          bqn |-> Str(<<"u00E2", "u0152", "u0153">>),
          uiua |-> Str(<<"u00E2", "u0160">>),
          j |-> Null,
          kap |-> Str(<<"u00E2", "u0152", "u00BB">>),
          tinyapl |-> Str(<<"u00E2", "u0160">>) ])
    @@ ("commute" :>
        [ apl |-> Str(<<"u00E2", "u00A8">>),
          bqn |-> Str(<<"u00CB", "u0153">>),
          uiua |-> Str(<<"u00CB", "u0153">>),
          j |-> Str(<<"~">>),
          kap |-> Str(<<"u00E2", "u00A8">>),
          tinyapl |-> Str(<<"u00E2", "u00A8">>) ])

\* group[lang]: a property read; a missing property reads as undefined
Prop(group, lang) == IF lang \in DOMAIN group THEN group[lang] ELSE Undefined

-----------------------------------------------------------------------------
(* buildTranslationMap, the cache, translatePrimitives *)

\* A Map is a sequence of [key, val] entries in insertion order.
MapHas(m, k) == \E n \in 1..Len(m) : m[n].key = k

MapGet(m, k) ==
    IF MapHas(m, k) THEN m[CHOOSE n \in 1..Len(m) : m[n].key = k].val
    ELSE Undefined

\* Map.prototype.set: a present key keeps its place and takes the new value
MapSet(m, k, v) ==
    IF MapHas(m, k)
    THEN [n \in 1..Len(m) |-> IF m[n].key = k THEN [key |-> k, val |-> v] ELSE m[n]]
    ELSE Append(m, [key |-> k, val |-> v])

MapKeys(m) == [n \in 1..Len(m) |-> m[n].key]

RECURSIVE BuildLoop(_, _, _, _)
BuildLoop(n, fromL, toL, maps) ==
    IF n > Len(ConceptOrder) THEN maps
    ELSE LET group == primitiveGroups[ConceptOrder[n]]
             fromGlyph == Prop(group, fromL)
             toGlyph == Prop(group, toL)
         IN  IF fromGlyph = Null \/ toGlyph = Null
             THEN BuildLoop(n + 1, fromL, toL, maps)
             ELSE IF fromGlyph = toGlyph
             THEN BuildLoop(n + 1, fromL, toL, maps)
             ELSE LET next == [forward |-> MapSet(maps.forward, fromGlyph, toGlyph),
                              backward |-> MapSet(maps.backward, toGlyph, fromGlyph)]
                  IN  \* next is evaluated here, before the loop goes on: both branches are
                      \* the same step
                      IF Len(next.forward) > 0 /\ Len(next.backward) > 0
                      THEN BuildLoop(n + 1, fromL, toL, next)
                      ELSE BuildLoop(n + 1, fromL, toL, next)

\* the maps with the forward map in the place of the backward map
buildTranslationMapOneWay(fromL, toL) ==
    LET maps == BuildLoop(1, fromL, toL, [forward |-> << >>, backward |-> << >>])
    IN  [forward |-> maps.forward, backward |-> maps.forward]

buildTranslationMap(fromL, toL) ==
    BuildLoop(1, fromL, toL, [forward |-> << >>, backward |-> << >>])

\* the key string: fromLang, then ->, then toLang
CacheKey(fromL, toL) == << fromL, toL >>

\* the cache with the map of the reversed pair stored for a new pair
CacheAfterGetSwapped(cache, fromL, toL) ==
    IF CacheKey(fromL, toL) \in DOMAIN cache THEN cache
    ELSE cache @@ (CacheKey(fromL, toL) :> buildTranslationMap(toL, fromL))

\* the cache after getTranslationMap(fromL, toL)
CacheAfterGet(cache, fromL, toL) ==
    IF CacheKey(fromL, toL) \in DOMAIN cache THEN cache
    ELSE cache @@ (CacheKey(fromL, toL) :> buildTranslationMap(fromL, toL))

\* what getTranslationMap(fromL, toL) returns
getTranslationMap(cache, fromL, toL) ==
    CacheAfterGet(cache, fromL, toL)[CacheKey(fromL, toL)]

\* a clear that drops nothing
clearNothing == translationCache

\* translationCache.clear()
clearTranslationCache == << >>

\* g.length of a key
GlyphLength(g) == Len(g.chars)

MaxGlyphLength(keys) ==
    IF keys = << >> THEN 0
    ELSE CHOOSE m \in {GlyphLength(keys[n]) : n \in 1..Len(keys)} :
             \A n \in 1..Len(keys) : GlyphLength(keys[n]) <= m

\* the keys of length len, len - 1, .. 0, each length in the keys' old order
RECURSIVE ByLengthDescending(_, _)
ByLengthDescending(keys, len) ==
    IF len < 0 THEN << >>
    ELSE SelectSeq(keys, LAMBDA g : GlyphLength(g) = len)
             \o ByLengthDescending(keys, len - 1)

\* the keys of length len, len + 1, .. max: a comparator with a and b swapped
RECURSIVE ByLengthAscending(_, _, _)
ByLengthAscending(keys, len, max) ==
    IF len > max THEN << >>
    ELSE SelectSeq(keys, LAMBDA g : GlyphLength(g) = len)
             \o ByLengthAscending(keys, len + 1, max)

\* the sort written as a.length - b.length: the shorter glyphs come first
SortedGlyphsAscending(forward) ==
    ByLengthAscending(MapKeys(forward), 0, MaxGlyphLength(MapKeys(forward)))

\* the sort left out: the glyphs in the order the table gives them
UnsortedGlyphs(forward) == MapKeys(forward)

\* [...forward.keys()].sort((a, b) => b.length - a.length): the sort is stable
\* and puts undefined last without calling the comparator
SortedGlyphs(forward) ==
    LET keys == MapKeys(forward)
        defined == SelectSeq(keys, LAMBDA g : g.kind # "undefined")
    IN  ByLengthDescending(defined, MaxGlyphLength(defined))
            \o SelectSeq(keys, LAMBDA g : g.kind = "undefined")

\* The alternation escapedGlyphs.join('|'): every glyph is escaped, so each
\* alternative matches its glyph literally; the first alternative, in order,
\* that matches at position i is the match.
FirstMatchAt(text, i, glyphs) ==
    LET hits == {n \in 1..Len(glyphs) : StartsWithAt(text, i, glyphs[n].chars)}
    IN  IF hits = {} THEN 0
        ELSE CHOOSE n \in hits : \A h \in hits : n <= h

\* forward.get(match) || match
Replacement(forward, glyph) ==
    LET v == MapGet(forward, glyph)
    IN  IF v.kind = "string" /\ v.chars # << >> THEN v.chars ELSE glyph.chars

\* text.split(g).join(r): every occurrence of one glyph replaced
RECURSIVE SplitJoin(_, _, _, _)
SplitJoin(text, i, g, r) ==
    IF i > Len(text) THEN << >>
    ELSE IF StartsWithAt(text, i, g) THEN r \o SplitJoin(text, i + Len(g), g, r)
    ELSE << text[i] >> \o SplitJoin(text, i + 1, g, r)

\* one split/join per glyph in turn, each over the text the last one left:
\* a replacement is scanned again by the glyphs that follow
RECURSIVE ReplaceSequentially(_, _, _, _)
ReplaceSequentially(text, n, glyphs, forward) ==
    IF n > Len(glyphs) THEN text
    ELSE ReplaceSequentially(
             SplitJoin(text, 1, glyphs[n].chars, Replacement(forward, glyphs[n])),
             n + 1, glyphs, forward)

\* code.replace(pattern, callback) with the g flag: one pass over the text
RECURSIVE ReplaceFrom(_, _, _, _)
ReplaceFrom(text, i, glyphs, forward) ==
    IF i > Len(text) THEN << >>
    ELSE LET n == FirstMatchAt(text, i, glyphs)
         IN  IF n = 0
             THEN << text[i] >> \o ReplaceFrom(text, i + 1, glyphs, forward)
             ELSE Replacement(forward, glyphs[n])
                      \o ReplaceFrom(text, i + Len(glyphs[n].chars), glyphs, forward)

Returns(v) == [threw |-> FALSE, value |-> v]
Throws == [threw |-> TRUE, value |-> << >>]

\* the part of translatePrimitives after the size test: escape, compile, replace
ReplaceWith(text, forward, sortedGlyphs) ==
    \* g.replace on a key that is no string: TypeError
    IF \E n \in 1..Len(sortedGlyphs) : sortedGlyphs[n].kind # "string"
    THEN Throws
    ELSE Returns(ReplaceFrom(text, 1, sortedGlyphs, forward))

\* the part of translatePrimitives after the map is fetched
TranslateWith(text, forward) ==
    IF Len(forward) = 0 THEN Returns(text)
    ELSE ReplaceWith(text, forward, SortedGlyphs(forward))

\* translatePrimitives(text, fromL, toL), run against the cache
translatePrimitives(cache, text, fromL, toL) ==
    IF fromL = toL THEN Returns(text)
    ELSE TranslateWith(text, getTranslationMap(cache, fromL, toL).forward)

\* hasTranslation answering true whatever the pair
hasTranslationAlways(cache, fromL, toL) == TRUE

\* hasTranslation(fromL, toL), run against the cache
hasTranslation(cache, fromL, toL) ==
    IF fromL = toL THEN FALSE
    ELSE Len(getTranslationMap(cache, fromL, toL).forward) > 0

\* the loop of getTranslatablePrimitives from the last concept to the first
RECURSIVE ListLoopReversed(_, _, _, _)
ListLoopReversed(n, fromL, toL, result) ==
    IF n < 1 THEN result
    ELSE LET group == primitiveGroups[ConceptOrder[n]]
             fromGlyph == Prop(group, fromL)
             toGlyph == Prop(group, toL)
         IN  IF fromGlyph # Null /\ toGlyph # Null /\ fromGlyph # toGlyph
             THEN ListLoopReversed(n - 1, fromL, toL,
                      Append(result, [from |-> fromGlyph, to |-> toGlyph,
                                      name |-> ConceptOrder[n]]))
             ELSE ListLoopReversed(n - 1, fromL, toL, result)

getTranslatablePrimitivesReversed(fromL, toL) ==
    ListLoopReversed(Len(ConceptOrder), fromL, toL, << >>)

\* the loop of getTranslatablePrimitives over Object.entries(primitiveGroups)
RECURSIVE ListLoop(_, _, _, _)
ListLoop(n, fromL, toL, result) ==
    IF n > Len(ConceptOrder) THEN result
    ELSE LET group == primitiveGroups[ConceptOrder[n]]
             fromGlyph == Prop(group, fromL)
             toGlyph == Prop(group, toL)
         IN  IF fromGlyph # Null /\ toGlyph # Null /\ fromGlyph # toGlyph
             THEN ListLoop(n + 1, fromL, toL,
                      Append(result, [from |-> fromGlyph, to |-> toGlyph,
                                      name |-> ConceptOrder[n]]))
             ELSE ListLoop(n + 1, fromL, toL, result)

getTranslatablePrimitives(fromL, toL) == ListLoop(1, fromL, toL, << >>)

-----------------------------------------------------------------------------
(* arrayLiteralConfig *)

Digit == {"0", "1", "2", "3", "4", "5", "6", "7", "8", "9"}

\* Canonicalize of the i flag: a code unit compares by its upper case
Canon(c) ==
    CASE c = "e" -> "E" [] c = "j" -> "J" [] c = "r" -> "R" [] c = "x" -> "X"
      [] c = "u00E2" -> "u00C2" [] c = "u00E1" -> "u00C1" [] c = "u0161" -> "u0160"
      [] OTHER -> c

\* Matchers take a text and a position and give the position after the match,
\* or 0 when there is no match.  Every optional or repeated part of the number
\* patterns is followed by a part that cannot match what it took, so the
\* greedy match is the match the regular expression engine finds.
Lit(text, i, c) ==
    IF i >= 1 /\ i <= Len(text) /\ Canon(text[i]) = Canon(c) THEN i + 1 ELSE 0

LitSeq(text, i, cs) ==
    IF i >= 1 /\ i + Len(cs) - 1 <= Len(text)
          /\ \A k \in 1..Len(cs) : Canon(text[i + k - 1]) = Canon(cs[k])
    THEN i + Len(cs) ELSE 0

OneOf(text, i, cs) ==
    IF i >= 1 /\ i <= Len(text) /\ Canon(text[i]) \in {Canon(c) : c \in cs}
    THEN i + 1 ELSE 0

Then(p, F(_)) == IF p = 0 THEN 0 ELSE F(p)

Optional(p, F(_)) == IF p = 0 THEN 0 ELSE IF F(p) = 0 THEN p ELSE F(p)

\* \d*
RECURSIVE Digits0(_, _)
Digits0(text, i) ==
    IF i <= Len(text) /\ text[i] \in Digit THEN Digits0(text, i + 1) ELSE i

\* \d+
Digits1(text, i) ==
    IF i >= 1 /\ i <= Len(text) /\ text[i] \in Digit THEN Digits0(text, i + 1) ELSE 0

\* \d+\.?\d*
Decimal(text, i) ==
    Then(Optional(Digits1(text, i), LAMBDA p : Lit(text, p, ".")),
         LAMBDA p : Digits0(text, p))

\* (\d+\.?\d*|\.\d+)
Mantissa(text, i) ==
    IF Decimal(text, i) # 0 THEN Decimal(text, i)
    ELSE Then(Lit(text, i, "."), LAMBDA p : Digits1(text, p))

\* [+-]?\d+
SignedDigits(text, i) ==
    Then(Optional(i, LAMBDA p : OneOf(text, p, {"+", "-"})),
         LAMBDA p : Digits1(text, p))

\* /^Â¯?(\d+\.?\d*|\.\d+)(e[+-]?\d+)?/i: the ? binds the one unit before it
HighMinusPattern(text, i) ==
    Optional(
        Then(Optional(Lit(text, i, "u00C2"), LAMBDA p : Lit(text, p, "u00AF")),
             LAMBDA p : Mantissa(text, p)),
        LAMBDA p : Then(Lit(text, p, "e"), LAMBDA q : SignedDigits(text, q)))

\* /^_?(\d+\.?\d*|\.\d+)([ejrx][+-]?\d+\.?\d*)?/i
JPattern(text, i) ==
    Optional(
        Then(Optional(i, LAMBDA p : Lit(text, p, "_")),
             LAMBDA p : Mantissa(text, p)),
        LAMBDA p :
            Then(Then(Optional(OneOf(text, p, {"e", "j", "r", "x"}),
                               LAMBDA q : OneOf(text, q, {"+", "-"})),
                      LAMBDA q : Digits1(text, q)),
                 LAMBDA q : Digits0(text, Optional(q, LAMBDA r : Lit(text, r, ".")))))

\* /^Â¯?(\d+\.?\d*|\.\d+)(â¨[+-]?\d+)?(á´ŠÂ¯?\d+\.?\d*)?/i
TinyAplPattern(text, i) ==
    Optional(
        Optional(
            Then(Optional(Lit(text, i, "u00C2"), LAMBDA p : Lit(text, p, "u00AF")),
                 LAMBDA p : Mantissa(text, p)),
            LAMBDA p : Then(LitSeq(text, p, << "u00E2", "u00A8" >>),
                            LAMBDA q : SignedDigits(text, q))),
        LAMBDA p :
            Then(Optional(LitSeq(text, p, << "u00E1", "u00B4", "u0160", "u00C2" >>),
                          LAMBDA q : Lit(text, q, "u00AF")),
                 LAMBDA q : Decimal(text, q)))

arrayLiteralConfig ==
    [ apl     |-> [separator |-> << " " >>, negative |-> << "u00C2", "u00AF" >>,
                   numberPattern |-> "highMinus"],
      bqn     |-> [separator |-> << "u00E2", "u20AC", "u00BF" >>,
                   negative |-> << "u00C2", "u00AF" >>,
                   numberPattern |-> "highMinus"],
      uiua    |-> [separator |-> << "_" >>, negative |-> << "u00C2", "u00AF" >>,
                   numberPattern |-> "highMinus"],
      j       |-> [separator |-> << " " >>, negative |-> << "_" >>,
                   numberPattern |-> "j"],
      kap     |-> [separator |-> << " " >>, negative |-> << "u00C2", "u00AF" >>,
                   numberPattern |-> "highMinus"],
      tinyapl |-> [separator |-> << "u00E2", "u20AC", "u00BF" >>,
                   negative |-> << "u00C2", "u00AF" >>,
                   numberPattern |-> "tinyapl"] ]

\* An id that is no key of arrayLiteralConfig but a property every object
\* inherits: arrayLiteralConfig[id] is then Object.prototype's value, which is
\* truthy and has no separator, negative or numberPattern.
InheritedLang == "constructor"

\* the value of a property the object lacks
NoField == << "undefined" >>

\* arrayLiteralConfig[lang], for a lang the lookup gives a truthy value for
Config(lang) ==
    IF lang \in DOMAIN arrayLiteralConfig THEN arrayLiteralConfig[lang]
    ELSE [separator |-> NoField, negative |-> NoField, numberPattern |-> "none"]

\* !config is false
HasConfig(lang) == lang \in DOMAIN arrayLiteralConfig \/ lang = InheritedLang

\* undefined + string: the text "undefined"
AsText(v) ==
    IF v = NoField THEN << "u", "n", "d", "e", "f", "i", "n", "e", "d" >> ELSE v

\* join(undefined) joins with a comma
JoinSeparator(sep) == IF sep = NoField THEN << "," >> ELSE sep

\* code.substring(i).match(config.numberPattern): the position after the match, or 0
MatchNumber(pattern, text, i) ==
    CASE pattern = "highMinus" -> HighMinusPattern(text, i)
      [] pattern = "j" -> JPattern(text, i)
      [] pattern = "tinyapl" -> TinyAplPattern(text, i)

-----------------------------------------------------------------------------
(* parseArrayLiteral, convertNumber *)

NoLiteral == [found |-> FALSE, elements |-> << >>, end |-> 0]

\* the while loop: separator + number, repeatedly; pos is the next position
RECURSIVE ParseMore(_, _, _, _)
ParseMore(config, text, pos, elements) ==
    LET sep == config.separator
        afterSep == pos + Len(sep)
        next == MatchNumber(config.numberPattern, text, afterSep)
    IN  IF pos > Len(text) THEN [elements |-> elements, end |-> pos]
        ELSE IF ~StartsWithAt(text, pos, sep) THEN [elements |-> elements, end |-> pos]
        ELSE IF afterSep > Len(text) THEN [elements |-> elements, end |-> pos]
        ELSE IF next = 0 THEN [elements |-> elements, end |-> pos]
        ELSE ParseMore(config, text, next,
                       Append(elements, SubSeq(text, afterSep, next - 1)))

\* the check of the element count with 1 for 2
MinElementsOffByOne == 2 - 1

\* the least number of elements of an array literal
MinElements == 2

parseArrayLiteral(text, start, lang) ==
    IF lang \notin DOMAIN arrayLiteralConfig THEN NoLiteral
    ELSE LET config == arrayLiteralConfig[lang]
             first == MatchNumber(config.numberPattern, text, start)
             run == ParseMore(config, text, first, << SubSeq(text, start, first - 1) >>)
         IN  IF first = 0 THEN NoLiteral
             ELSE IF Len(run.elements) < MinElements THEN NoLiteral
             ELSE [found |-> TRUE, elements |-> run.elements, end |-> run.end]

\* the number as it is, prefix and all
convertNumberKeeping(num, fromL, toL) == num

convertNumber(num, fromL, toL) ==
    IF ~HasConfig(fromL) \/ ~HasConfig(toL)
    THEN num
    ELSE LET fromNeg == Config(fromL).negative
             toNeg == Config(toL).negative
         IN  IF fromNeg = toNeg THEN num
             ELSE IF StartsWithAt(num, 1, fromNeg)
             THEN AsText(toNeg) \o SubSeq(num, Len(fromNeg) + 1, Len(num))
             ELSE num

-----------------------------------------------------------------------------
(* getStringDelimiters, getCommentStarters, skipString, skipComment *)

getStringDelimiters(lang) ==
    CASE lang \in {"apl", "j", "kap"} -> << "'" >>
      [] lang \in {"bqn", "uiua"} -> << "u0022" >>
      [] lang = "tinyapl" -> << "'", "u0022" >>
      [] OTHER -> << >>

getCommentStarters(lang) ==
    CASE lang \in {"apl", "kap", "tinyapl"} -> << << "u00E2" >> >>
      [] lang \in {"bqn", "uiua"} -> << << "#" >> >>
      [] lang = "j" -> << << "N", "B", "." >> >>
      [] OTHER -> << >>

Includes(seq, x) == \E n \in 1..Len(seq) : seq[n] = x

\* the while loop of skipString, from position pos
RECURSIVE SkipStringLoop(_, _, _, _, _)
SkipStringLoop(text, pos, delimiter, useDoubleEscape, escapeChar) ==
    IF pos > Len(text) THEN pos
    ELSE LET c == text[pos]
         IN  IF c = delimiter
             THEN IF useDoubleEscape /\ pos + 1 <= Len(text) /\ text[pos + 1] = delimiter
                  THEN SkipStringLoop(text, pos + 2, delimiter, useDoubleEscape, escapeChar)
                  ELSE pos + 1
             ELSE IF ~useDoubleEscape /\ << c >> = escapeChar /\ pos + 1 <= Len(text)
             THEN SkipStringLoop(text, pos + 2, delimiter, useDoubleEscape, escapeChar)
             ELSE IF c = "u000A" THEN pos
             ELSE SkipStringLoop(text, pos + 1, delimiter, useDoubleEscape, escapeChar)

\* no string is recognised: every position is code
skipStringNever(text, i, lang, delimiters) == i

\* a delimiter always ends the string, doubled or not
skipStringNoDoubling(text, i, lang, delimiters) ==
    IF ~Includes(delimiters, text[i]) THEN i
    ELSE SkipStringLoop(text, i + 1, text[i], FALSE, << "u005C" >>)

\* the position after the string that starts at i, or i
skipString(text, i, lang, delimiters) ==
    IF ~Includes(delimiters, text[i]) THEN i
    ELSE SkipStringLoop(text, i + 1, text[i],
             text[i] = "'" /\ lang # "bqn",
             IF lang = "tinyapl" /\ text[i] = "u0022"
             THEN << "u00E2", "u02DC" >> ELSE << "u005C" >>)

\* code.indexOf('\n', i): the first newline at or after i, or 0
RECURSIVE IndexOfNewline(_, _)
IndexOfNewline(text, i) ==
    IF i > Len(text) THEN 0
    ELSE IF text[i] = "u000A" THEN i
    ELSE IndexOfNewline(text, i + 1)

\* a comment that takes the rest of the text, newlines and all
skipCommentToEnd(text, i, lang, commentStarters) ==
    IF \E n \in 1..Len(commentStarters) : StartsWithAt(text, i, commentStarters[n])
    THEN Len(text) + 1
    ELSE i

\* the position of the end of the line when a comment starts at i, or i
skipComment(text, i, lang, commentStarters) ==
    IF \E n \in 1..Len(commentStarters) : StartsWithAt(text, i, commentStarters[n])
    THEN IF IndexOfNewline(text, i) = 0 THEN Len(text) + 1 ELSE IndexOfNewline(text, i)
    ELSE i

-----------------------------------------------------------------------------
(* translateArrayLiterals *)

\* parsed.elements.map(el => convertNumber(el, fromLang, toLang)).join(separator)
RECURSIVE JoinConverted(_, _, _, _)
JoinConverted(elements, fromL, toL, sep) ==
    IF Len(elements) = 1 THEN convertNumber(elements[1], fromL, toL)
    ELSE convertNumber(Head(elements), fromL, toL) \o sep
             \o JoinConverted(Tail(elements), fromL, toL, sep)

IsNumberStart(ch, fromConfig) ==
    ch \in Digit \/ ch = "." \/ << ch >> = fromConfig.negative

\* the while loop of translateArrayLiterals, from position i
RECURSIVE ScanFrom(_, _, _, _)
ScanFrom(text, i, fromL, toL) ==
    IF i > Len(text) THEN << >>
    ELSE LET strSkip == skipString(text, i, fromL, getStringDelimiters(fromL))
             commentSkip == skipComment(text, i, fromL, getCommentStarters(fromL))
             parsed == parseArrayLiteral(text, i, fromL)
         IN  IF strSkip > i
             THEN SubSeq(text, i, strSkip - 1) \o ScanFrom(text, strSkip, fromL, toL)
             ELSE IF commentSkip > i
             THEN SubSeq(text, i, commentSkip - 1) \o ScanFrom(text, commentSkip, fromL, toL)
             ELSE IF IsNumberStart(text[i], arrayLiteralConfig[fromL]) /\ parsed.found
             THEN JoinConverted(parsed.elements, fromL, toL,
                                JoinSeparator(Config(toL).separator))
                      \o ScanFrom(text, parsed.end, fromL, toL)
             ELSE << text[i] >> \o ScanFrom(text, i + 1, fromL, toL)

\* the position the while loop of translateArrayLiterals goes to from i
ScanAdvance(text, i, fromL) ==
    LET strSkip == skipString(text, i, fromL, getStringDelimiters(fromL))
        commentSkip == skipComment(text, i, fromL, getCommentStarters(fromL))
        parsed == parseArrayLiteral(text, i, fromL)
    IN  IF strSkip > i THEN strSkip
        ELSE IF commentSkip > i THEN commentSkip
        ELSE IF IsNumberStart(text[i], arrayLiteralConfig[fromL]) /\ parsed.found
        THEN parsed.end
        ELSE i + 1

\* the runs rewritten for APL whatever the target language is
translateArrayLiteralsToApl(text, fromL, toL) ==
    IF fromL \in DOMAIN arrayLiteralConfig
    THEN Returns(ScanFrom(text, 1, fromL, "apl"))
    ELSE Returns(text)

\* With the inherited value as fromConfig no string, comment or negative
\* prefix is recognised, and the first digit or point reaches
\* parseArrayLiteral: match(undefined) matches the empty text, and the loop
\* reads sep.length of an undefined sep, a TypeError.
ThrowsInParse(text) == \E i \in 1..Len(text) : text[i] \in Digit \cup {"."}

translateArrayLiterals(text, fromL, toL) ==
    IF fromL = toL THEN Returns(text)
    ELSE IF ~HasConfig(fromL) \/ ~HasConfig(toL)
    THEN Returns(text)
    ELSE IF Config(fromL).separator = Config(toL).separator
            /\ Config(fromL).negative = Config(toL).negative
    THEN Returns(text)
    ELSE IF fromL \notin DOMAIN arrayLiteralConfig
    THEN IF ThrowsInParse(text) THEN Throws ELSE Returns(text)
    ELSE Returns(ScanFrom(text, 1, fromL, toL))

-----------------------------------------------------------------------------
(* The texts the calls are made on *)

\* the language whose tokens and notation a text is written in
InputLang(fromL, toL) ==
    IF fromL \in Languages THEN fromL
    ELSE IF toL \in Languages THEN toL
    ELSE "apl"

\* the tokens of a language's column of the table, and a letter that is none
TokenPieces(lang) ==
    {PrimitiveGroupsInit[c][lang].chars :
        c \in {d \in DOMAIN PrimitiveGroupsInit :
                  PrimitiveGroupsInit[d][lang].kind = "string"}}
    \cup {<< "x" >>}

\* a token written n times, n up to MaxTokens
TokenSeqs(lang) ==
    {[k \in 1..n |-> t] : n \in 0..MaxTokens, t \in TokenPieces(lang)}

Wraps == {"code", "string", "comment"}

\* a token sequence as code, inside a string literal, or inside a comment
PrimText(in, lang) ==
    CASE in.wrap = "code" -> Flatten(in.toks)
      [] in.wrap = "string" ->
            << getStringDelimiters(lang)[1] >> \o Flatten(in.toks)
                \o << getStringDelimiters(lang)[1] >>
      [] in.wrap = "comment" -> getCommentStarters(lang)[1] \o Flatten(in.toks)

PrimInputs(lang) == [wrap : Wraps, toks : TokenSeqs(lang)]

\* The negative prefix and the separator as written in a text: in the source
\* file's own code units, or in the glyphs (high minus U+00AF, ligature U+203F)
\* a user of the language types.
Notations == {"source", "unicode"}

NegativeOf(lang, notation) ==
    IF notation = "source" \/ lang = "j" THEN arrayLiteralConfig[lang].negative
    ELSE << "u00AF" >>

SeparatorOf(lang, notation) ==
    IF notation = "source" \/ lang \notin {"bqn", "tinyapl"}
    THEN arrayLiteralConfig[lang].separator
    ELSE << "u203F" >>

DigitOf(k) == << <<"1">>, <<"2">>, <<"3">>, <<"4">>, <<"5">>, <<"6">>, <<"7">>, <<"8">>, <<"9">> >>[k]

\* the number at place k of a run: the digit k, negative when signs[k]
ElementOf(signs, k, lang, notation) ==
    (IF signs[k] THEN NegativeOf(lang, notation) ELSE << >>) \o DigitOf(k)

RECURSIVE RunFrom(_, _, _, _)
RunFrom(signs, k, lang, notation) ==
    IF k = Len(signs) THEN ElementOf(signs, k, lang, notation)
    ELSE ElementOf(signs, k, lang, notation) \o SeparatorOf(lang, notation)
             \o RunFrom(signs, k + 1, lang, notation)

\* the numbers 1, 2, .. joined by the separator, signs[k] making number k negative
RunText(signs, lang, notation) == RunFrom(signs, 1, lang, notation)

SignSeqs == UNION {[1..n -> BOOLEAN] : n \in 1..MaxRun}

Regions == {"code", "string", "open", "comment"}
Tails == {"none", "sep", "sepx", "escape"}
Posts == {"none", "run", "nextline"}

TailText(in, lang) ==
    CASE in.tail = "none" -> << >>
      [] in.tail = "sep" -> SeparatorOf(lang, in.notation)
      [] in.tail = "sepx" -> SeparatorOf(lang, in.notation) \o << "x" >>
      [] in.tail = "escape" -> << "u005C" >>

\* the run "7 -8" that follows the region, on the same line or on the next
PostText(in, lang) ==
    LET run == << "7" >> \o SeparatorOf(lang, in.notation)
                   \o NegativeOf(lang, in.notation) \o << "8" >>
    IN  CASE in.post = "none" -> << >>
          [] in.post = "run" -> << " " >> \o run
          [] in.post = "nextline" -> << "u000A" >> \o run

BodyText(in, lang) == RunText(in.signs, lang, in.notation) \o TailText(in, lang)

\* the region of a text: its body as code, in a closed or an unclosed string
\* literal, or in a comment
RegionText(in, lang) ==
    CASE in.region = "code" -> BodyText(in, lang)
      [] in.region = "string" ->
            << getStringDelimiters(lang)[1] >> \o BodyText(in, lang)
                \o << getStringDelimiters(lang)[1] >>
      [] in.region = "open" -> << getStringDelimiters(lang)[1] >> \o BodyText(in, lang)
      [] in.region = "comment" -> getCommentStarters(lang)[1] \o BodyText(in, lang)

LitText(in, lang) == RegionText(in, lang) \o PostText(in, lang)

LitInputs ==
    [region : Regions, signs : SignSeqs, notation : Notations, tail : Tails,
     post : Posts]

-----------------------------------------------------------------------------
(* Calls of translatePrimitives on texts of tokens *)

InitPrim ==
    /\ primitiveGroups = PrimitiveGroupsInit
    /\ translationCache = << >>
    /\ op = "translatePrimitives"
    /\ fromLang \in LangArgs
    /\ toLang \in LangArgs
    /\ input \in PrimInputs(InputLang(fromLang, toLang))
    /\ code = PrimText(input, InputLang(fromLang, toLang))
    /\ pc = "call"
    /\ ret = Returns(<< >>)
    /\ cleared = TRUE
    /\ earlier = {}
    /\ ServerAtLoad
    /\ HandlerAtCreation("bqn")

TranslatePrimitives ==
    /\ pc = "call"
    /\ op = "translatePrimitives"
    /\ ret' = translatePrimitives(translationCache, code, fromLang, toLang)
    /\ translationCache' =
          IF fromLang = toLang THEN translationCache
          ELSE CacheAfterGet(translationCache, fromLang, toLang)
    /\ pc' = "return"
    /\ UNCHANGED << primitiveGroups, op, input, code, fromLang, toLang,
                    cleared, earlier >>
    /\ UNCHANGED << serverVars, keyVars >>

NextPrim == TranslatePrimitives

SpecPrim == InitPrim /\ [][NextPrim]_vars

-----------------------------------------------------------------------------
(* Calls of translateArrayLiterals on texts of numeric runs *)

InitLit ==
    /\ primitiveGroups = PrimitiveGroupsInit
    /\ translationCache = << >>
    /\ op = "translateArrayLiterals"
    /\ fromLang \in LangArgs
    /\ toLang \in LangArgs
    /\ input \in LitInputs
    /\ code = LitText(input, InputLang(fromLang, toLang))
    /\ pc = "call"
    /\ ret = Returns(<< >>)
    /\ cleared = TRUE
    /\ earlier = {}
    /\ ServerAtLoad
    /\ HandlerAtCreation("bqn")

TranslateArrayLiterals ==
    /\ pc = "call"
    /\ op = "translateArrayLiterals"
    /\ ret' = translateArrayLiterals(code, fromLang, toLang)
    /\ pc' = "return"
    /\ UNCHANGED << primitiveGroups, translationCache, op, input, code,
                    fromLang, toLang, cleared, earlier >>
    /\ UNCHANGED << serverVars, keyVars >>

NextLit == TranslateArrayLiterals

SpecLit == InitLit /\ [][NextLit]_vars

-----------------------------------------------------------------------------
(* Calls of translatePrimitives and hasTranslation between changes of the    *)
(* table and calls of clearTranslationCache                                  *)

\* the languages of the calls, and the entry of the table that is changed
CacheLangs == {"apl", "bqn", "j"}
ChangedConcept == "tally"
ChangedLang == "j"
NewGlyph == << "T" >>
Glyphs == {PrimitiveGroupsInit[ChangedConcept][ChangedLang], Str(NewGlyph)}

\* the text of a call: the tally token of the language, then the new glyph
CacheInput(lang) ==
    [wrap |-> "code",
     toks |-> << PrimitiveGroupsInit[ChangedConcept][lang].chars, NewGlyph >>]

NoCall == [wrap |-> "code", toks |-> << >>]

InitCache ==
    /\ primitiveGroups = PrimitiveGroupsInit
    /\ translationCache = << >>
    /\ op = "import"
    /\ fromLang = "apl"
    /\ toLang = "apl"
    /\ input = NoCall
    /\ code = << >>
    /\ pc = "return"
    /\ ret = Returns(<< >>)
    /\ cleared = TRUE
    /\ earlier = {}
    /\ ServerAtLoad
    /\ HandlerAtCreation("bqn")

\* a caller starts a call of translatePrimitives or hasTranslation
Call ==
    /\ pc = "return"
    /\ \E name \in {"translatePrimitives", "hasTranslation"},
          f \in CacheLangs, t \in CacheLangs :
          /\ \/ f = t
             \/ CacheKey(f, t) \in DOMAIN translationCache
             \/ Cardinality(DOMAIN translationCache) < MaxCached
          /\ op' = name
          /\ fromLang' = f
          /\ toLang' = t
          /\ input' = IF name = "translatePrimitives" THEN CacheInput(f) ELSE NoCall
          /\ code' = PrimText(input', f)
    /\ pc' = "call"
    /\ ret' = Returns(<< >>)
    /\ UNCHANGED << primitiveGroups, translationCache, cleared, earlier >>
    /\ UNCHANGED << serverVars, keyVars >>

HasTranslation ==
    /\ pc = "call"
    /\ op = "hasTranslation"
    /\ ret' = Returns(hasTranslation(translationCache, fromLang, toLang))
    /\ translationCache' =
          IF fromLang = toLang THEN translationCache
          ELSE CacheAfterGet(translationCache, fromLang, toLang)
    /\ pc' = "return"
    /\ UNCHANGED << primitiveGroups, op, input, code, fromLang, toLang,
                    cleared, earlier >>
    /\ UNCHANGED << serverVars, keyVars >>

ClearTranslationCache ==
    /\ pc = "return"
    /\ translationCache' = clearTranslationCache
    /\ op' = "clearTranslationCache"
    /\ input' = NoCall
    /\ code' = << >>
    /\ ret' = Returns(<< >>)
    /\ cleared' = TRUE
    /\ UNCHANGED << primitiveGroups, fromLang, toLang, pc, earlier >>
    /\ UNCHANGED << serverVars, keyVars >>

\* a caller assigns to an entry of the exported table
ChangeTable ==
    /\ pc = "return"
    /\ \E g \in Glyphs :
          /\ primitiveGroups[ChangedConcept][ChangedLang] # g
          /\ primitiveGroups' =
                [primitiveGroups EXCEPT ![ChangedConcept][ChangedLang] = g]
    /\ op' = "changeTable"
    /\ cleared' = FALSE
    /\ earlier' = DOMAIN translationCache
    /\ input' = NoCall
    /\ code' = << >>
    /\ ret' = Returns(<< >>)
    /\ UNCHANGED << translationCache, fromLang, toLang, pc >>
    /\ UNCHANGED << serverVars, keyVars >>

NextCache ==
    \/ Call
    \/ TranslatePrimitives
    \/ HasTranslation
    \/ ClearTranslationCache
    \/ ChangeTable

SpecCache == InitCache /\ [][NextCache]_vars

\* the same calls with the table left as it is
NextCacheFixed ==
    \/ Call
    \/ TranslatePrimitives
    \/ HasTranslation
    \/ ClearTranslationCache

SpecCacheFixed == InitCache /\ [][NextCacheFixed]_vars

-----------------------------------------------------------------------------
(* Calls of the two queries, hasTranslation and getTranslatablePrimitives *)

\* a second id that is none of the six
OtherUnknownLang == "yy"
QueryLangArgs == LangArgs \cup {OtherUnknownLang}

InitQuery ==
    /\ primitiveGroups = PrimitiveGroupsInit
    /\ translationCache = << >>
    /\ op \in {"hasTranslation", "getTranslatablePrimitives"}
    /\ fromLang \in QueryLangArgs
    /\ toLang \in QueryLangArgs
    /\ input = NoCall
    /\ code = << >>
    /\ pc = "call"
    /\ ret = Returns(<< >>)
    /\ cleared = TRUE
    /\ earlier = {}
    /\ ServerAtLoad
    /\ HandlerAtCreation("bqn")

GetTranslatablePrimitives ==
    /\ pc = "call"
    /\ op = "getTranslatablePrimitives"
    /\ ret' = Returns(getTranslatablePrimitives(fromLang, toLang))
    /\ pc' = "return"
    /\ UNCHANGED << primitiveGroups, translationCache, op, input, code,
                    fromLang, toLang, cleared, earlier >>
    /\ UNCHANGED << serverVars, keyVars >>

NextQuery ==
    \/ HasTranslation
    \/ GetTranslatablePrimitives

SpecQuery == InitQuery /\ [][NextQuery]_vars

-----------------------------------------------------------------------------
(* Calls of translateArrayLiterals with an id that is none of the six *)

LitLangArgs == LangArgs \cup {InheritedLang}

InitLitUnknown ==
    /\ primitiveGroups = PrimitiveGroupsInit
    /\ translationCache = << >>
    /\ op = "translateArrayLiterals"
    /\ fromLang \in LitLangArgs
    /\ toLang \in LitLangArgs
    /\ (fromLang \notin Languages \/ toLang \notin Languages)
    /\ input \in LitInputs
    /\ code = LitText(input, InputLang(fromLang, toLang))
    /\ pc = "call"
    /\ ret = Returns(<< >>)
    /\ cleared = TRUE
    /\ earlier = {}
    /\ ServerAtLoad
    /\ HandlerAtCreation("bqn")

NextLitUnknown == TranslateArrayLiterals

SpecLitUnknown == InitLitUnknown /\ [][NextLitUnknown]_vars

-----------------------------------------------------------------------------
(* Calls of the two translators with the same id on both sides *)

InitSame ==
    /\ primitiveGroups = PrimitiveGroupsInit
    /\ translationCache = << >>
    /\ op \in {"translatePrimitives", "translateArrayLiterals"}
    /\ fromLang \in LitLangArgs
    /\ toLang = fromLang
    /\ input \in IF op = "translatePrimitives"
                  THEN PrimInputs(InputLang(fromLang, toLang))
                  ELSE LitInputs
    /\ code = IF op = "translatePrimitives"
              THEN PrimText(input, InputLang(fromLang, toLang))
              ELSE LitText(input, InputLang(fromLang, toLang))
    /\ pc = "call"
    /\ ret = Returns(<< >>)
    /\ cleared = TRUE
    /\ earlier = {}
    /\ ServerAtLoad
    /\ HandlerAtCreation("bqn")

NextSame ==
    \/ TranslatePrimitives
    \/ TranslateArrayLiterals

SpecSame == InitSame /\ [][NextSame]_vars

-----------------------------------------------------------------------------
(* The permalink server, servers/permalink-server.cjs.  A code is the       *)
(* sequence of its characters; a content is the object the server builds    *)
(* from a request body, a record of the properties it has.                  *)

CHARS ==
    << "A", "B", "C", "D", "E", "F", "G", "H", "I", "J", "K", "L", "M",
       "N", "O", "P", "Q", "R", "S", "T", "U", "V", "W", "X", "Y", "Z",
       "a", "b", "c", "d", "e", "f", "g", "h", "i", "j", "k", "l", "m",
       "n", "o", "p", "q", "r", "s", "t", "u", "v", "w", "x", "y", "z",
       "0", "1", "2", "3", "4", "5", "6", "7", "8", "9" >>

\* the characters of a text
Range(text) == {text[i] : i \in 1..Len(text)}

\* CHARS.indexOf(ch), counted from 1
IndexOf(ch) == CHOOSE i \in 1..Len(CHARS) : CHARS[i] = ch

\* What Math.floor(Math.random() * CHARS.length) gave in the four rounds of
\* generateCode, counted from 1: the first code, the last code, and the one
\* before the last.
RandomDraws == { << 1, 1, 1, 1 >>, << 62, 62, 62, 61 >>, << 62, 62, 62, 62 >> }

generateCode(draws) == [i \in 1..4 |-> CHARS[draws[i]]]

\* the loop of incrementCode from position i down
RECURSIVE IncrementAt(_, _)
IncrementAt(chars, i) ==
    IF i = 0 THEN << CHARS[1] >> \o chars
    ELSE IF IndexOf(chars[i]) < Len(CHARS)
    THEN [chars EXCEPT ![i] = CHARS[IndexOf(chars[i]) + 1]]
    ELSE IncrementAt([chars EXCEPT ![i] = CHARS[1]], i - 1)

incrementCode(c) == IncrementAt(c, Len(c))

\* the code as generated, taken or not
FirstFreeUnchecked(store, newCode) == newCode

\* while (permalinks[newCode]) newCode = incrementCode(newCode)
RECURSIVE FirstFree(_, _)
FirstFree(store, newCode) ==
    IF newCode \in DOMAIN store
    THEN FirstFree(store, incrementCode(newCode))
    ELSE newCode

\* The bodies of POST /p: one that JSON.parse rejects, and objects whose four
\* properties are a text or the empty text (as falsy as a missing property).
Bodies ==
    {NoBody} \cup
    [json : {TRUE}, lang : {"", "j"}, code : {"", "1 2"},
     result : {"", "3"}, resultHtml : {"", "<b>3</b>"}]

\* const content = { lang, code }, with result and resultHtml when truthy
Content(body) ==
    [f \in {"lang", "code"}
            \cup (IF body.result # "" THEN {"result"} ELSE {})
            \cup (IF body.resultHtml # "" THEN {"resultHtml"} ELSE {})
        |-> body[f]]

\* { success: true, ...data }
WithSuccess(data) ==
    [f \in {"success"} \cup DOMAIN data |->
        IF f = "success" THEN TRUE ELSE data[f]]

\* permalinks[newCode] = content
Store(store, newCode, content) ==
    [c \in DOMAIN store \cup {newCode} |->
        IF c = newCode THEN content ELSE store[c]]

Answer(req, status, body) == [request |-> req, status |-> status, body |-> body]

\* a code no permalink has, and a code with a point, which the first GET
\* handler leaves to the second
MissingCode == << "z", "z", "z", "z" >>
DottedCode == << "A", ".", "p", "n", "g" >>
Accepts == {"application/json", "text/html"}

\* a code that names a property every object inherits: permalinks[code] is
\* the function Object, which has no lang and no code
InheritedCode == << "c", "o", "n", "s", "t", "r", "u", "c", "t", "o", "r" >>

\* if (data), for data = permalinks[code]
HasData(store, c) == c \in DOMAIN store \/ c = InheritedCode

\* an exception leaves the request handler: nothing is answered, and the
\* process, which handles no uncaught exception, ends
Uncaught(req) == [request |-> req, status |-> 0, body |-> [threw |-> TRUE]]

\* the server process has not ended
Running == "threw" \notin DOMAIN response.body

InitPermalink ==
    /\ ServerAtLoad
    /\ primitiveGroups = PrimitiveGroupsInit
    /\ translationCache = << >>
    /\ op = "import"
    /\ fromLang = "apl"
    /\ toLang = "apl"
    /\ input = NoCall
    /\ code = << >>
    /\ pc = "return"
    /\ ret = Returns(<< >>)
    /\ cleared = TRUE
    /\ earlier = {}
    /\ HandlerAtCreation("bqn")

\* no stored permalink is ever taken for the content of a request
IdenticalContentNone(store, content) == {}

\* the keys of the stored permalinks whose JSON text is that of content
IdenticalContent(store, content) ==
    {key \in DOMAIN store : store[key] = content}

\* POST /p
PostPermalink ==
    \E b \in Bodies :
       LET req == [method |-> "POST", path |-> "/p", code |-> << >>,
                   accept |-> "", body |-> b]
           content == Content(b)
           same == IdenticalContent(permalinks, content)
       IN  IF ~b.json
           THEN /\ response' = Answer(req, 400, [success |-> FALSE,
                                                 error |-> "Invalid JSON"])
                /\ UNCHANGED << permalinks, issued >>
           ELSE IF b.lang = "" \/ b.code = ""
           THEN /\ response' = Answer(req, 400, [success |-> FALSE,
                                                 error |-> "Missing lang or code"])
                /\ UNCHANGED << permalinks, issued >>
           ELSE IF same # {}
           THEN LET key == CHOOSE k \in same : TRUE
                IN  /\ response' = Answer(req, 200, [success |-> TRUE, id |-> key])
                    /\ issued' = issued \cup {[id |-> key, content |-> content]}
                    /\ UNCHANGED permalinks
           ELSE \E draws \in RandomDraws, saved \in BOOLEAN :
                   LET newCode == FirstFree(permalinks, generateCode(draws))
                   IN  /\ Cardinality(DOMAIN permalinks) < MaxStored
                       /\ permalinks' = Store(permalinks, newCode, content)
                       /\ IF saved
                          THEN /\ response' = Answer(req, 200, [success |-> TRUE,
                                                                id |-> newCode])
                               /\ issued' = issued \cup {[id |-> newCode,
                                                          content |-> content]}
                          ELSE /\ response' = Answer(req, 500,
                                                     [success |-> FALSE,
                                                      error |-> "Failed to save"])
                               /\ UNCHANGED issued

\* GET /p/:code, by the first handler or (a code with a point) the second
GetPermalink ==
    \E c \in DOMAIN permalinks \cup {MissingCode, DottedCode, InheritedCode},
       a \in Accepts :
       LET req == [method |-> "GET", path |-> "/p/", code |-> c,
                   accept |-> a, body |-> NoBody]
           found == HasData(permalinks, c)
           own == c \in DOMAIN permalinks
           asJson == a = "application/json" \/ "." \in Range(c)
       IN  /\ response' =
                 IF asJson
                 THEN IF found
                      THEN Answer(req, 200,
                                  IF own THEN WithSuccess(permalinks[c])
                                  ELSE [success |-> TRUE])
                      ELSE Answer(req, 404, [success |-> FALSE, error |-> "Not found"])
                 ELSE IF found
                      THEN IF own THEN Answer(req, 200, [html |-> "generateOGHtml"])
                           ELSE Uncaught(req)
                      ELSE Answer(req, 404, [html |-> "Not found"])
           /\ UNCHANGED << permalinks, issued >>

\* GET /health
Health ==
    /\ response' = Answer([method |-> "GET", path |-> "/health", code |-> << >>,
                           accept |-> "", body |-> NoBody],
                          200,
                          [status |-> "ok", count |-> Cardinality(DOMAIN permalinks)])
    /\ UNCHANGED << permalinks, issued >>

NextPermalink ==
    \/ Running /\ PostPermalink /\ UNCHANGED << translateVars, keyVars >>
    \/ Running /\ GetPermalink /\ UNCHANGED << translateVars, keyVars >>
    \/ Running /\ Health /\ UNCHANGED << translateVars, keyVars >>

SpecPermalink == InitPermalink /\ [][NextPermalink]_vars

-----------------------------------------------------------------------------
(* The keyboard handler, keymap.js.  A key is the one code unit of its      *)
(* character, or the name of a key that has none ("Shift", "Enter").        *)

bqnKeymap ==
    "u0060" :> << "u00CB", "u0153" >> @@ "~" :> << "u00C2", "u00AC" >> @@
    "1" :> << "u00CB", "u02DC" >> @@ "u0021" :> << "u00E2", "u2030" >> @@
    "2" :> << "u00C2", "u00A8" >> @@ "u0040" :> << "u00E2", "u0161", "u2021" >> @@
    "3" :> << "u00E2", "u00BC" >> @@ "#" :> << "u00E2", "u0178" >> @@
    "4" :> << "u00E2", "u0152", "u0153" >> @@ "$" :> << "u00E2", "u2014", "u00B6" >> @@
    "5" :> << "u00C2", "u00B4" >> @@ "u0025" :> << "u00E2", "u0160", "u02DC" >> @@
    "6" :> << "u00CB" >> @@ "u005E" :> << "u00E2", "u0160" >> @@
    "7" :> << >> @@ "u0026" :> << >> @@
    "8" :> << "u00E2", "u02C6" >> @@ "*" :> << >> @@
    "9" :> << "u00C2", "u00AF" >> @@ "u0028" :> << "u00E2", "u0178", "u00A8" >> @@
    "0" :> << "u00E2", "u20AC", "u00A2" >> @@ "u0029" :> << "u00E2", "u0178", "u00A9" >> @@
    "-" :> << "u00C3", "u00B7" >> @@ "_" :> << "u00E2", "u02C6", "u0161" >> @@
    "u003D" :> << "u00C3", "u2014" >> @@ "+" :> << "u00E2", "u2039", "u2020" >> @@
    "q" :> << "u00E2", "u0152", "u00BD" >> @@ "Q" :> << >> @@
    "w" :> << "u011F", "u2022", "u00A8" >> @@ "W" :> << "u011F", "u2022" >> @@
    "e" :> << "u00E2", "u02C6", "u0160" >> @@ "E" :> << "u00E2", "u00B7" >> @@
    "r" :> << "u00E2", "u2020", "u2018" >> @@ "R" :> << "u011F", "u2022", "u00A3" >> @@
    "t" :> << "u00E2", "u02C6", "u00A7" >> @@ "T" :> << "u00E2", "u2039" >> @@
    "y" :> << >> @@ "Y" :> << >> @@
    "u" :> << "u00E2", "u0160", "u201D" >> @@ "U" :> << >> @@
    "i" :> << "u00E2", "u0160" >> @@ "I" :> << "u00E2", "u0160", "u2018" >> @@
    "o" :> << "u00E2", "u0160" >> @@ "O" :> << "u00E2", "u0160", "u2019" >> @@
    "p" :> << "u00CF", "u20AC" >> @@ "P" :> << >> @@
    "u005B" :> << "u00E2", "u2020" >> @@ "u007B" :> << "u00E2", "u0160", "u00A3" >> @@
    "u005D" :> << "u00E2", "u2020", "u2019" >> @@ "u007D" :> << "u00E2", "u0160", "u00A2" >> @@
    "u005C" :> << >> @@ "|" :> << >> @@
    "a" :> << "u00E2", "u2030" >> @@ "A" :> << >> @@
    "s" :> << "u011F", "u2022", "u00A4" >> @@ "S" :> << "u011F", "u2022", "u0160" >> @@
    "d" :> << "u00E2", "u2020", "u2022" >> @@ "D" :> << >> @@
    "f" :> << "u011F", "u2022", "u2014" >> @@ "F" :> << "u011F", "u201D", "u00BD" >> @@
    "g" :> << "u011F", "u2022", "u02DC" >> @@ "G" :> << "u011F", "u201D", "u00BE" >> @@
    "h" :> << "u00E2", "u0160", "u00B8" >> @@ "H" :> << "u00C2", "u00AB" >> @@
    "j" :> << "u00E2", "u02C6", "u02DC" >> @@ "J" :> << >> @@
    "k" :> << "u00E2", "u2014", "u2039" >> @@ "K" :> << "u00E2", "u0152", "u00BE" >> @@
    "l" :> << "u00E2", "u0178", "u0153" >> @@ "L" :> << "u00C2", "u00BB" >> @@
    "u003B" :> << "u00E2", "u2039", "u201E" >> @@ ":" :> << "u00C2", "u00B7" >> @@
    "'" :> << "u00E2", "u2020", "u00A9" >> @@ "u0022" :> << "u00CB", "u2122" >> @@
    "z" :> << "u00E2", "u00A5", "u0160" >> @@ "Z" :> << "u00E2", "u2039", "u02C6" >> @@
    "x" :> << "u011F", "u2022", "u00A9" >> @@ "X" :> << "u011F", "u2022" >> @@
    "c" :> << "u00E2", "u2020", "u201C" >> @@ "C" :> << >> @@
    "v" :> << "u00E2", "u02C6", "u00A8" >> @@ "V" :> << "u00E2", "u2019" >> @@
    "b" :> << "u00E2", "u0152", "u0160" >> @@ "B" :> << "u00E2", "u0152", "u02C6" >> @@
    "n" :> << >> @@ "N" :> << >> @@
    "m" :> << "u00E2", "u2030", "u00A1" >> @@ "M" :> << "u00E2", "u2030", "u00A2" >> @@
    "," :> << "u00E2", "u02C6", "u00BE" >> @@ "<" :> << "u00E2", "u2030", "u00A4" >> @@
    "." :> << "u00E2", "u2030" >> @@ ">" :> << "u00E2", "u2030", "u00A5" >> @@
    "/" :> << "u00E2", "u2030", "u00A0" >> @@ "u003F" :> << "u00E2", "u2021" >> @@
    " " :> << "u00E2", "u20AC", "u00BF" >>

aplKeymap ==
    "u0060" :> << "u00E2", "u2039", "u201E" >> @@ "~" :> << "u00E2", "u0152", "u00BA" >> @@
    "1" :> << "u00C2", "u00A8" >> @@ "u0021" :> << "u00E2", "u0152", "u00B6" >> @@
    "2" :> << "u00C2", "u00AF" >> @@ "u0040" :> << "u00E2", "u00AB" >> @@
    "3" :> << "<" >> @@ "#" :> << "u00E2", "u2019" >> @@
    "4" :> << "u00E2", "u2030", "u00A4" >> @@ "$" :> << "u00E2", "u2039" >> @@
    "5" :> << "u003D" >> @@ "u0025" :> << "u00E2", "u0152", "u00BD" >> @@
    "6" :> << "u00E2", "u2030", "u00A5" >> @@ "u005E" :> << "u00E2", "u2030" >> @@
    "7" :> << ">" >> @@ "u0026" :> << "u00E2", "u0160", "u2013" >> @@
    "8" :> << "u00E2", "u2030", "u00A0" >> @@ "*" :> << "u00E2", "u0178" >> @@
    "9" :> << "u00E2", "u02C6", "u00A8" >> @@ "u0028" :> << "u00E2", "u00B1" >> @@
    "0" :> << "u00E2", "u02C6", "u00A7" >> @@ "u0029" :> << "u00E2", "u00B2" >> @@
    "-" :> << "u00C3", "u2014" >> @@ "_" :> << "u0021" >> @@
    "u003D" :> << "u00C3", "u00B7" >> @@ "+" :> << "u00E2", "u0152", "u00B9" >> @@
    "q" :> << "u003F" >> @@ "Q" :> << >> @@
    "w" :> << "u00E2", "u00B5" >> @@ "W" :> << >> @@
    "e" :> << "u00E2", "u02C6", "u0160" >> @@ "E" :> << "u00E2", "u00B7" >> @@
    "r" :> << "u00E2", "u00B4" >> @@ "R" :> << >> @@
    "t" :> << "~" >> @@ "T" :> << "u00E2", "u00A8" >> @@
    "y" :> << "u00E2", "u2020", "u2018" >> @@ "Y" :> << >> @@
    "u" :> << "u00E2", "u2020", "u201C" >> @@ "U" :> << >> @@
    "i" :> << "u00E2", "u00B3" >> @@ "I" :> << "u00E2", "u00B8" >> @@
    "o" :> << "u00E2", "u2014", "u2039" >> @@ "O" :> << "u00E2", "u00A5" >> @@
    "p" :> << "*" >> @@ "P" :> << "u00E2", "u00A3" >> @@
    "u005B" :> << "u00E2", "u2020" >> @@ "u007B" :> << "u00E2" >> @@
    "u005D" :> << "u00E2", "u2020", "u2019" >> @@ "u007D" :> << "u00E2", "u00AC" >> @@
    "u005C" :> << "u00E2", "u0160", "u00A2" >> @@ "|" :> << "u00E2", "u0160", "u00A3" >> @@
    "a" :> << "u00E2", "u00BA" >> @@ "A" :> << >> @@
    "s" :> << "u00E2", "u0152", "u02C6" >> @@ "S" :> << >> @@
    "d" :> << "u00E2", "u0152", "u0160" >> @@ "D" :> << >> @@
    "f" :> << "_" >> @@ "F" :> << "u00E2", "u203A" >> @@
    "g" :> << "u00E2", "u02C6", "u2021" >> @@ "G" :> << >> @@
    "h" :> << "u00E2", "u02C6", "u2020" >> @@ "H" :> << >> @@
    "j" :> << "u00E2", "u02C6", "u02DC" >> @@ "J" :> << "u00E2", "u00A4" >> @@
    "k" :> << "'" >> @@ "K" :> << "u00E2", "u0152", "u00B8" >> @@
    "l" :> << "u00E2", "u2022" >> @@ "L" :> << "u00E2", "u0152", "u00B7" >> @@
    "u003B" :> << "u00E2" >> @@ ":" :> << "u00E2", "u2030", "u00A1" >> @@
    "'" :> << "u00E2", "u2022" >> @@ "u0022" :> << "u00E2", "u2030", "u00A2" >> @@
    "z" :> << "u00E2", "u0160", "u201A" >> @@ "Z" :> << "u00E2", "u0160", "u2020" >> @@
    "x" :> << "u00E2", "u0160", "u0192" >> @@ "X" :> << >> @@
    "c" :> << "u00E2", "u02C6", "u00A9" >> @@ "C" :> << >> @@
    "v" :> << "u00E2", "u02C6", "u00AA" >> @@ "V" :> << >> @@
    "b" :> << "u00E2", "u0160", "u00A5" >> @@ "B" :> << >> @@
    "n" :> << "u00E2", "u0160", "u00A4" >> @@ "N" :> << >> @@
    "m" :> << "|" >> @@ "M" :> << >> @@
    "," :> << "u00E2" >> @@ "<" :> << "u00E2", "u00AA" >> @@
    "." :> << "u00E2", "u20AC" >> @@ ">" :> << "u00E2", "u2122" >> @@
    "/" :> << "u00E2", "u0152", "u00BF" >> @@ "u003F" :> << "u00E2", "u00A0" >>

\* codeToKey: for each code the key with shift pressed, and the key without
codeToKey ==
    "Digit1" :> << "u0021", "1" >> @@ "Digit2" :> << "u0040", "2" >> @@
    "Digit3" :> << "#", "3" >> @@ "Digit4" :> << "$", "4" >> @@
    "Digit5" :> << "u0025", "5" >> @@ "Digit6" :> << "u005E", "6" >> @@
    "Digit7" :> << "u0026", "7" >> @@ "Digit8" :> << "*", "8" >> @@
    "Digit9" :> << "u0028", "9" >> @@ "Digit0" :> << "u0029", "0" >> @@
    "Minus" :> << "_", "-" >> @@ "Equal" :> << "+", "u003D" >> @@
    "Backquote" :> << "~", "u0060" >> @@ "KeyQ" :> << "Q", "q" >> @@
    "KeyW" :> << "W", "w" >> @@ "KeyE" :> << "E", "e" >> @@
    "KeyR" :> << "R", "r" >> @@ "KeyT" :> << "T", "t" >> @@
    "KeyY" :> << "Y", "y" >> @@ "KeyU" :> << "U", "u" >> @@
    "KeyI" :> << "I", "i" >> @@ "KeyO" :> << "O", "o" >> @@
    "KeyP" :> << "P", "p" >> @@ "KeyA" :> << "A", "a" >> @@
    "KeyS" :> << "S", "s" >> @@ "KeyD" :> << "D", "d" >> @@
    "KeyF" :> << "F", "f" >> @@ "KeyG" :> << "G", "g" >> @@
    "KeyH" :> << "H", "h" >> @@ "KeyJ" :> << "J", "j" >> @@
    "KeyK" :> << "K", "k" >> @@ "KeyL" :> << "L", "l" >> @@
    "KeyZ" :> << "Z", "z" >> @@ "KeyX" :> << "X", "x" >> @@
    "KeyC" :> << "C", "c" >> @@ "KeyV" :> << "V", "v" >> @@
    "KeyB" :> << "B", "b" >> @@ "KeyN" :> << "N", "n" >> @@
    "KeyM" :> << "M", "m" >> @@ "BracketLeft" :> << "u007B", "u005B" >> @@
    "BracketRight" :> << "u007D", "u005D" >> @@ "Backslash" :> << "|", "u005C" >> @@
    "Semicolon" :> << ":", "u003B" >> @@ "Quote" :> << "u0022", "'" >> @@
    "Comma" :> << "<", "," >> @@ "Period" :> << ">", "." >> @@
    "Slash" :> << "u003F", "/" >> @@ "Space" :> << " ", " " >>

shiftMap ==
    "1" :> "u0021" @@ "2" :> "u0040" @@ "3" :> "#" @@ "4" :> "$" @@
    "5" :> "u0025" @@ "6" :> "u005E" @@ "7" :> "u0026" @@ "8" :> "*" @@
    "9" :> "u0028" @@ "0" :> "u0029" @@ "-" :> "_" @@ "u003D" :> "+" @@
    "u0060" :> "~" @@ "u005B" :> "u007B" @@ "u005D" :> "u007D" @@ "u005C" :> "|" @@
    "u003B" :> ":" @@ "'" :> "u0022" @@ "," :> "<" @@ "." :> ">" @@
    "/" :> "u003F"

\* getKeymapInfo(language).prefixKey, and prefixKey of createKeyboardHandler
prefixKey(lang) == IF lang = "bqn" THEN "u005C" ELSE "u0060"

\* getKeymapInfo(language).keymap, and keymap of createKeyboardHandler
keymap(lang) == IF lang = "bqn" THEN bqnKeymap ELSE aplKeymap

getKeymapInfo(lang) ==
    [prefixKey |-> prefixKey(lang),
     keymap |-> keymap(lang),
     description |-> IF lang = "bqn" THEN "BQN" ELSE "APL"]

ModifierKeys == {"Shift", "Control", "Alt", "Meta"}

\* the keys of the model's keyboard, by their code
KeyboardCodes == {"Backquote", "Backslash", "Digit1", "KeyQ", "Space"}

\* The keydown events of that keyboard, on a layout that has the characters
\* where codeToKey has them: each key with and without shift, alone or with
\* one of ctrl, alt and meta, with its code or (a browser that gives none)
\* without; the Shift key itself; and Enter, a key codeToKey lacks.
Events ==
    { [key |-> codeToKey[c][IF sh THEN 1 ELSE 2],
       code |-> IF withCode THEN c ELSE "",
       shiftKey |-> sh,
       ctrlKey |-> (held = "ctrl"), altKey |-> (held = "alt"),
       metaKey |-> (held = "meta")] :
        c \in KeyboardCodes, sh \in BOOLEAN, withCode \in BOOLEAN,
        held \in {"none", "ctrl", "alt", "meta"} }
    \cup
    { [key |-> "Shift", code |-> "ShiftLeft", shiftKey |-> TRUE,
       ctrlKey |-> FALSE, altKey |-> FALSE, metaKey |-> FALSE],
      [key |-> "Enter", code |-> "Enter", shiftKey |-> FALSE,
       ctrlKey |-> FALSE, altKey |-> FALSE, metaKey |-> FALSE] }

LowerCase == {"a", "b", "c", "d", "e", "f", "g", "h", "i", "j", "k", "l", "m",
              "n", "o", "p", "q", "r", "s", "t", "u", "v", "w", "x", "y", "z"}
UpperCaseOf ==
    "a" :> "A" @@ "b" :> "B" @@ "c" :> "C" @@ "d" :> "D" @@ "e" :> "E" @@
    "f" :> "F" @@ "g" :> "G" @@ "h" :> "H" @@ "i" :> "I" @@ "j" :> "J" @@
    "k" :> "K" @@ "l" :> "L" @@ "m" :> "M" @@ "n" :> "N" @@ "o" :> "O" @@
    "p" :> "P" @@ "q" :> "Q" @@ "r" :> "R" @@ "s" :> "S" @@ "t" :> "T" @@
    "u" :> "U" @@ "v" :> "V" @@ "w" :> "W" @@ "x" :> "X" @@ "y" :> "Y" @@
    "z" :> "Z"

\* the key the handler looks up: from e.code where codeToKey has it, from
\* e.key (adjusted for shift) otherwise; "" stands for null
ResolvedKey(e) ==
    LET shiftPressed == e.shiftKey
    IN  IF e.code # "" /\ e.code \in DOMAIN codeToKey
        THEN codeToKey[e.code][IF shiftPressed THEN 1 ELSE 2]
        ELSE IF e.key # ""
        THEN IF shiftPressed
             THEN IF e.key \in LowerCase THEN UpperCaseOf[e.key]
                  ELSE IF e.key \in DOMAIN shiftMap THEN shiftMap[e.key]
                  ELSE e.key
             ELSE e.key
        ELSE ""

isPrefixKey(lang, e) ==
    \/ e.key = prefixKey(lang)
    \/ e.key = "Backslash" /\ prefixKey(lang) = "u005C"
    \/ prefixKey(lang) = "u005C" /\ e.code = "Backslash"
    \/ prefixKey(lang) = "u0060" /\ (e.code = "Backquote" \/ e.key = "u0060")

\* handleKeyDown without the branch for a second prefix key: the prefix key
\* starts prefix mode again
handleKeyDownNoDouble(lang, active, e) ==
    IF e.key \in ModifierKeys
    THEN [prefixActive |-> active, defaultPrevented |-> FALSE, inserted |-> << >>]
    ELSE IF isPrefixKey(lang, e) /\ ~e.ctrlKey /\ ~e.altKey /\ ~e.metaKey
    THEN [prefixActive |-> TRUE, defaultPrevented |-> TRUE, inserted |-> << >>]
    ELSE IF active
    THEN LET key == ResolvedKey(e)
         IN  [prefixActive |-> FALSE,
              defaultPrevented |-> TRUE,
              inserted |-> IF key # "" /\ key \in DOMAIN keymap(lang)
                           THEN keymap(lang)[key]
                           ELSE << >>]
    ELSE [prefixActive |-> active, defaultPrevented |-> FALSE, inserted |-> << >>]

\* What handleKeyDown does with event e: the new prefixActive, whether it
\* called e.preventDefault(), and the text it gave to insertText (none: << >>).
handleKeyDown(lang, active, e) ==
    IF e.key \in ModifierKeys
    THEN [prefixActive |-> active, defaultPrevented |-> FALSE, inserted |-> << >>]
    ELSE IF isPrefixKey(lang, e) /\ ~e.ctrlKey /\ ~e.altKey /\ ~e.metaKey
    THEN IF active
         THEN [prefixActive |-> FALSE, defaultPrevented |-> FALSE, inserted |-> << >>]
         ELSE [prefixActive |-> TRUE, defaultPrevented |-> TRUE, inserted |-> << >>]
    ELSE IF active
    THEN LET key == ResolvedKey(e)
         IN  [prefixActive |-> FALSE,
              defaultPrevented |-> TRUE,
              inserted |-> IF key # "" /\ key \in DOMAIN keymap(lang)
                           THEN keymap(lang)[key]
                           ELSE << >>]
    ELSE [prefixActive |-> active, defaultPrevented |-> FALSE, inserted |-> << >>]

\* insertText on an input element whose caret is at the end of its value
insertText(el, text) == [el EXCEPT !.value = @ \o text]

\* the prefix key of the language pressed alone: no shift, ctrl, alt or meta
PlainPrefixPress(lang, e) ==
    /\ e.key = prefixKey(lang)
    /\ ~e.shiftKey /\ ~e.ctrlKey /\ ~e.altKey /\ ~e.metaKey

InitKeymap ==
    /\ ServerAtLoad
    /\ primitiveGroups = PrimitiveGroupsInit
    /\ translationCache = << >>
    /\ op = "import"
    /\ fromLang = "apl"
    /\ toLang = "apl"
    /\ input = NoCall
    /\ code = << >>
    /\ pc = "return"
    /\ ret = Returns(<< >>)
    /\ cleared = TRUE
    /\ earlier = {}
    /\ \E lang \in {"bqn", "apl"} : HandlerAtCreation(lang)

\* a keydown event reaches the element
KeyDown ==
    /\ Len(element.value) < MaxTyped
    /\ \E e \in Events :
          LET done == handleKeyDown(language, prefixActive, e)
          IN  /\ prefixActive' = done.prefixActive
              /\ element' = insertText(element, done.inserted)
              /\ event' = [key |-> e.key, code |-> e.code, shiftKey |-> e.shiftKey,
                           ctrlKey |-> e.ctrlKey, altKey |-> e.altKey,
                           metaKey |-> e.metaKey,
                           defaultPrevented |-> done.defaultPrevented,
                           inserted |-> done.inserted,
                           afterPrefix |-> armed.set,
                           prefixPrevented |-> armed.defaultPrevented]
              /\ armed' = IF e.key \in ModifierKeys THEN armed
                          ELSE IF PlainPrefixPress(language, e) /\ ~prefixActive
                          THEN [set |-> TRUE,
                                defaultPrevented |-> done.defaultPrevented]
                          ELSE Unarmed
    /\ UNCHANGED language

\* handleBlur
Blur ==
    /\ prefixActive' = FALSE
    /\ event' = NoEvent
    /\ armed' = Unarmed
    /\ UNCHANGED << language, element >>

NextKeymap ==
    \/ KeyDown /\ UNCHANGED << translateVars, serverVars >>
    \/ Blur /\ UNCHANGED << translateVars, serverVars >>

SpecKeymap == InitKeymap /\ [][NextKeymap]_vars

-----------------------------------------------------------------------------
(* Calls of translateArrayLiterals on texts whose string literals hold       *)
(* doubled delimiters or comment tokens, and whose comments hold delimiters  *)

Shapes == {"doubled", "commentInString", "stringInComment"}

RegionInputs(lang) ==
    [shape : Shapes, delim : 1..Len(getStringDelimiters(lang)), signs : SignSeqs,
     notation : Notations, post : Posts]

\* the delimiter and the comment token of an input
DelimiterOf(in, lang) == getStringDelimiters(lang)[in.delim]
StarterOf(lang) == getCommentStarters(lang)[1]

\* The string literal or the comment of an input, with a run in it:
\* 'x''1 2' (a doubled delimiter in the string), '#1 2' (a comment token in
\* the string), #'1 2 (a delimiter in the comment).
ShapeText(in, lang) ==
    LET d == DelimiterOf(in, lang)
        run == RunText(in.signs, lang, in.notation)
    IN  CASE in.shape = "doubled" -> << d, "x", d, d >> \o run \o << d >>
          [] in.shape = "commentInString" -> << d >> \o StarterOf(lang) \o run \o << d >>
          [] in.shape = "stringInComment" -> StarterOf(lang) \o << d >> \o run

RegionsText(in, lang) == ShapeText(in, lang) \o PostText(in, lang)

InitRegions ==
    /\ primitiveGroups = PrimitiveGroupsInit
    /\ translationCache = << >>
    /\ op = "translateArrayLiterals"
    /\ fromLang \in Languages
    /\ toLang \in Languages
    /\ input \in RegionInputs(fromLang)
    /\ code = RegionsText(input, fromLang)
    /\ pc = "call"
    /\ ret = Returns(<< >>)
    /\ cleared = TRUE
    /\ earlier = {}
    /\ ServerAtLoad
    /\ HandlerAtCreation("bqn")

NextRegions == TranslateArrayLiterals

SpecRegions == InitRegions /\ [][NextRegions]_vars

-----------------------------------------------------------------------------
(* Claims about translatePrimitives, checked under SpecPrim *)

Returned(name) == pc = "return" /\ op = name

KnownPair == fromLang \in Languages /\ toLang \in Languages /\ fromLang # toLang

\* concept c has a token in both languages, and the two tokens differ
Corresponds(c, fromL, toL) ==
    /\ PrimitiveGroupsInit[c][fromL].kind = "string"
    /\ PrimitiveGroupsInit[c][toL].kind = "string"
    /\ PrimitiveGroupsInit[c][fromL] # PrimitiveGroupsInit[c][toL]

Concepts == DOMAIN PrimitiveGroupsInit

SourceToken(c) == PrimitiveGroupsInit[c][fromLang].chars
TargetToken(c) == PrimitiveGroupsInit[c][toLang].chars

\* the text of the call is the one token of concept c, as code
OneToken(c) == input.wrap = "code" /\ input.toks = << SourceToken(c) >>

\* s occurs in text
Occurs(s, text) ==
    \E k \in 0..(Len(text) - Len(s)) : SubSeq(text, k + 1, k + Len(s)) = s

ProperPrefix(s, t) == Len(s) < Len(t) /\ SubSeq(t, 1, Len(s)) = s

\* C1: translatePrimitives leaves the text inside a string literal or a comment
\* as it is: the tokens written between the delimiters of a string, or after a
\* comment token, are found unchanged in the result.
C1_StringsAndCommentsUntouched ==
    (Returned("translatePrimitives") /\ KnownPair
        /\ input.wrap \in {"string", "comment"}
        /\ \A k \in 1..Len(input.toks) :
              input.toks[k] # << getStringDelimiters(fromLang)[1] >>)
    => (~ret.threw /\ Occurs(Flatten(input.toks), ret.value))

\* C2: with fromLang or toLang (or both) outside the six languages,
\* translatePrimitives returns the text unchanged and does not throw.
C2_UnknownLanguageReturnsText ==
    (Returned("translatePrimitives")
        /\ (fromLang \notin Languages \/ toLang \notin Languages))
    => ret = Returns(code)

\* C3: substitution does not cascade: when the pair maps token a to b and
\* token b to c, the text a is translated to b (and so not to c).
C3_NonCascading ==
    \A x \in Concepts, y \in Concepts :
        (Returned("translatePrimitives") /\ KnownPair /\ OneToken(x)
            /\ Corresponds(x, fromLang, toLang) /\ Corresponds(y, fromLang, toLang)
            /\ SourceToken(y) = TargetToken(x))
        => (ret = Returns(TargetToken(x)) /\ ret.value # TargetToken(y))

C3_Witness ==
    /\ Returned("translatePrimitives")
    /\ fromLang = "bqn" /\ toLang = "j"
    /\ OneToken("reduce")
    /\ SourceToken("where") = TargetToken("reduce")
    /\ ret.value = << "/" >>

\* C4: the longest token wins: when the pair maps both s and s', s a proper
\* prefix of s', the text s' is translated to the target of s'.
C4_LongestTokenFirst ==
    \A x \in Concepts, y \in Concepts :
        (Returned("translatePrimitives") /\ KnownPair /\ OneToken(y)
            /\ Corresponds(x, fromLang, toLang) /\ Corresponds(y, fromLang, toLang)
            /\ ProperPrefix(SourceToken(x), SourceToken(y)))
        => ret = Returns(TargetToken(y))

C4_Witness ==
    /\ Returned("translatePrimitives")
    /\ fromLang = "apl" /\ toLang = "bqn"
    /\ OneToken("leftOperand")
    /\ ProperPrefix(SourceToken("leftArg"), SourceToken("leftOperand"))
    /\ ret.value = TargetToken("leftOperand")

\* C8: a single token makes the round trip: for a concept whose tokens tA and
\* tB differ, tA translates to tB from A to B, and tB translates back to tA.
C8_SingleTokenRoundTrip ==
    \A c \in Concepts :
        (Returned("translatePrimitives") /\ KnownPair /\ OneToken(c)
            /\ Corresponds(c, fromLang, toLang))
        => /\ ret = Returns(TargetToken(c))
           /\ translatePrimitives(translationCache, ret.value, toLang, fromLang)
                 = Returns(SourceToken(c))

C8_Witness ==
    /\ Returned("translatePrimitives")
    /\ fromLang = "j" /\ toLang = "uiua"
    /\ OneToken("iota")
    /\ ret.value = TargetToken("iota")
    /\ ret.value # code

-----------------------------------------------------------------------------
(* Claims about translateArrayLiterals, checked under SpecLit *)

TextLang == InputLang(fromLang, toLang)

\* the text that belongs to the string literal or comment of the input: the
\* region, and what follows it on the same line when the region is not closed
Protected ==
    IF input.region \in {"open", "comment"} /\ input.post = "run"
    THEN code
    ELSE RegionText(input, TextLang)

C6_AplJRoundTrip ==
    (Returned("translateArrayLiterals") /\ fromLang = "apl" /\ toLang = "j"
        /\ input.notation = "unicode" /\ input.region = "code"
        /\ input.tail = "none" /\ input.post = "none" /\ Len(input.signs) >= 2)
    => /\ ret = Returns(RunText(input.signs, "j", "unicode"))
       /\ translateArrayLiterals(ret.value, "j", "apl") = Returns(code)

\* C7: a number that no separator joins to another number is returned as it
\* is, negative prefix included, for every pair of languages.
C7_LoneNumberUnchanged ==
    (Returned("translateArrayLiterals") /\ input.region = "code"
        /\ Len(input.signs) = 1 /\ input.post \in {"none", "nextline"})
    => (~ret.threw
        /\ SubSeq(ret.value, 1, Len(BodyText(input, TextLang)))
              = BodyText(input, TextLang))

\* a lone negative number, between two languages whose negative prefixes differ
C7_Witness ==
    /\ Returned("translateArrayLiterals")
    /\ fromLang = "j" /\ toLang = "apl"
    /\ input.region = "code" /\ input.signs = << TRUE >>
    /\ input.tail = "none" /\ input.post = "none"
    /\ arrayLiteralConfig["j"].negative # arrayLiteralConfig["apl"].negative
    /\ ret.value = code

\* C9: skipString does not go past the first newline after the opening
\* delimiter unless a closing delimiter comes before that newline.
C9_StringEndsAtNewline ==
    \A i \in 1..Len(code) :
        LET delimiters == getStringDelimiters(fromLang)
            newline == IndexOfNewline(code, i + 1)
        IN  (/\ fromLang \in Languages
             /\ Includes(delimiters, code[i])
             /\ newline # 0
             /\ \A k \in (i + 1)..(newline - 1) : code[k] # code[i])
            => skipString(code, i, fromLang, delimiters) <= newline

-----------------------------------------------------------------------------
(* Claims about the cache, checked under SpecCache *)

\* the map of a cached pair is the map the table now gives
Fresh(key) == translationCache[key] = buildTranslationMap(key[1], key[2])

\* C10: once clearTranslationCache has been called after the table was
\* changed, every map in the cache is built from the table as it now is, and
\* a call of translatePrimitives or hasTranslation returns what it returns
\* with an empty cache, whichever pairs were cached before.
C10_ClearedCacheIsFresh ==
    cleared =>
        /\ \A key \in DOMAIN translationCache : Fresh(key)
        /\ (Returned("translatePrimitives"))
              => ret = translatePrimitives(<< >>, code, fromLang, toLang)
        /\ (Returned("hasTranslation"))
              => ret = Returns(hasTranslation(<< >>, fromLang, toLang))

\* the pair was cached when the table changed, the cache was cleared, and the
\* call made after it gives the new glyph
C10_Witness ==
    /\ Returned("translatePrimitives")
    /\ cleared
    /\ fromLang = "apl" /\ toLang = "j"
    /\ CacheKey(fromLang, toLang) \in earlier
    /\ primitiveGroups[ChangedConcept][ChangedLang] = Str(NewGlyph)
    /\ ret = Returns(NewGlyph \o NewGlyph)

-----------------------------------------------------------------------------
(* Claims about the queries, checked under SpecQuery *)

\* C11: with fromLang or toLang outside the six languages, hasTranslation
\* returns false and getTranslatablePrimitives returns the empty sequence.
C11_UnknownLanguageQueries ==
    (pc = "return" /\ (fromLang \notin Languages \/ toLang \notin Languages))
    => /\ op = "hasTranslation" => ret = Returns(FALSE)
       /\ op = "getTranslatablePrimitives" => ret = Returns(<< >>)

-----------------------------------------------------------------------------
(* Claims about translateArrayLiterals with an unknown id, checked under     *)
(* SpecLitUnknown                                                            *)

\* C12: with fromLang or toLang outside the six languages,
\* translateArrayLiterals returns the text unchanged and does not throw.
C12_UnknownLanguageLiterals ==
    (Returned("translateArrayLiterals")
        /\ (fromLang \notin Languages \/ toLang \notin Languages))
    => ret = Returns(code)

-----------------------------------------------------------------------------
(* Claims about same-language calls, checked under SpecSame *)

\* C13: with the same id for fromLang and toLang, translatePrimitives and
\* translateArrayLiterals both return the text unchanged, whatever the text.
C13_SameLanguageNoOp ==
    (pc = "return" /\ fromLang = toLang) => ret = Returns(code)

\* a J text with a run that holds a negative number, translated from J to J
C13_Witness ==
    /\ Returned("translateArrayLiterals")
    /\ fromLang = "j" /\ toLang = "j"
    /\ input.region = "code" /\ input.signs = << FALSE, TRUE >>
    /\ input.tail = "none" /\ input.post = "none"
    /\ code = << "1", " ", "_", "2" >>
    /\ ret = Returns(code)

-----------------------------------------------------------------------------
(* Claims about the queries on pairs of the six languages, checked under     *)
(* SpecQuery                                                                 *)

BothKnown == fromLang \in Languages /\ toLang \in Languages

\* the place of concept c in the table
PlaceOf(c) == CHOOSE n \in 1..Len(ConceptOrder) : ConceptOrder[n] = c

\* C14: hasTranslation(a, b) is true exactly when a differs from b and some
\* concept has tokens for a and b that are both there and differ; it is true
\* exactly when getTranslatablePrimitives(a, b) is not empty, and it equals
\* hasTranslation(b, a).
C14_HasTranslationMeaning ==
    (Returned("hasTranslation") /\ BothKnown)
    => /\ ret.value = (fromLang # toLang
                        /\ \E c \in Concepts : Corresponds(c, fromLang, toLang))
       /\ ret.value = (getTranslatablePrimitives(fromLang, toLang) # << >>)
       /\ ret.value = hasTranslation(<< >>, toLang, fromLang)

C14_Witness ==
    /\ Returned("hasTranslation")
    /\ fromLang = "apl" /\ toLang = "j"
    /\ ret.value = TRUE
    /\ Corresponds("iota", fromLang, toLang)
    /\ getTranslatablePrimitives(fromLang, toLang) # << >>

\* C15: getTranslatablePrimitives(a, b) has one entry, with the two tokens and
\* the name, for each concept whose tokens for a and b are both there and
\* differ, has no other entry, and lists the entries in the order of the table.
C15_TranslatablePrimitivesListed ==
    (Returned("getTranslatablePrimitives") /\ BothKnown)
    => /\ \A k \in 1..Len(ret.value) :
             /\ ret.value[k].name \in Concepts
             /\ Corresponds(ret.value[k].name, fromLang, toLang)
             /\ ret.value[k].from = PrimitiveGroupsInit[ret.value[k].name][fromLang]
             /\ ret.value[k].to = PrimitiveGroupsInit[ret.value[k].name][toLang]
       /\ \A c \in Concepts :
             Corresponds(c, fromLang, toLang)
             => Cardinality({k \in 1..Len(ret.value) : ret.value[k].name = c}) = 1
       /\ \A j \in 1..Len(ret.value), k \in 1..Len(ret.value) :
             j < k => PlaceOf(ret.value[j].name) < PlaceOf(ret.value[k].name)

\* a list of several entries whose order is not the order of the names
C15_Witness ==
    /\ Returned("getTranslatablePrimitives")
    /\ fromLang = "apl" /\ toLang = "j"
    /\ Len(ret.value) >= 2
    /\ ret.value[1].name = "stringDelimiter" \/ ret.value[1].name = "comment"
    /\ \E k \in 1..(Len(ret.value) - 1) :
          ret.value[k].name = "tally" /\ ret.value[k + 1].name = "shape"

-----------------------------------------------------------------------------
(* Claims about the permalink server, checked under SpecPermalink *)

AsksJson(req) == req.method = "GET" /\ req.path = "/p/" /\ req.accept = "application/json"

\* every id answered with success is in the store with the content it was
\* answered for, and a GET that asks JSON for it is answered with that content
IssuedAnswered ==
    /\ \A e \in issued :
          e.id \in DOMAIN permalinks /\ permalinks[e.id] = e.content
    /\ \A e \in issued :
          (AsksJson(response.request) /\ response.request.code = e.id)
          => (response.status = 200 /\ response.body = WithSuccess(e.content))

\* a step keeps every permalink of the store, with its content
StoredStays ==
    \A c \in DOMAIN permalinks :
       c \in DOMAIN permalinks' /\ permalinks'[c] = permalinks[c]

\* C16: once POST /p has answered success with id c for a content, every
\* later GET /p/c that asks for JSON answers success with that content,
\* whatever is handled in between; no stored permalink is overwritten or
\* removed, so a new code is never a code the store already has.
C16_StoreAndRetrieve == []IssuedAnswered /\ [][StoredStays]_vars

\* the second permalink was made on a taken code, and is read back
C16_Witness ==
    /\ AsksJson(response.request)
    /\ response.request.code = << "A", "A", "A", "B" >>
    /\ DOMAIN permalinks = {<< "A", "A", "A", "A" >>, << "A", "A", "A", "B" >>}
    /\ [id |-> << "A", "A", "A", "B" >>,
        content |-> [lang |-> "j", code |-> "1 2", result |-> "3"]] \in issued
    /\ response.status = 200
    /\ response.body = [success |-> TRUE, lang |-> "j", code |-> "1 2",
                        result |-> "3"]

\* C17: every id POST /p creates has exactly 4 characters, all of CHARS, also
\* when the generated code and its successors were taken and incrementCode
\* advanced it.
C17_FourCharacterIds ==
    \A e \in issued :
       Len(e.id) = 4 /\ \A i \in 1..Len(e.id) : e.id[i] \in Range(CHARS)

-----------------------------------------------------------------------------
(* Claims about the keyboard handler, checked under SpecKeymap *)

\* the event is a press of key k with none of ctrl, alt and meta
Pressed(k) == event.key = k /\ ~event.ctrlKey /\ ~event.altKey /\ ~event.metaKey

\* C18: for both keymaps and every key k whose entry is a non-empty text,
\* pressing the prefix key alone while prefix mode is off and then k inserts
\* the entry of k into the element, and the default action of both presses is
\* prevented.
C18_PrefixThenKey ==
    \A k \in DOMAIN keymap(language) :
       (keymap(language)[k] # << >> /\ event.afterPrefix /\ Pressed(k))
       => /\ event.inserted = keymap(language)[k]
          /\ event.defaultPrevented
          /\ event.prefixPrevented

-----------------------------------------------------------------------------
(* A claim about the runs translateArrayLiterals rewrites, checked under     *)
(* SpecLit                                                                   *)

\* the scan of translateArrayLiterals recognises a run at the start of the text
RunRecognised ==
    /\ IsNumberStart(code[1], arrayLiteralConfig[fromLang])
    /\ parseArrayLiteral(code, 1, fromLang).found

\* the run "7 -8" that follows the region, in the notation of lang
PostRun(lang) ==
    << "7" >> \o arrayLiteralConfig[lang].separator
        \o arrayLiteralConfig[lang].negative \o << "8" >>

\* The text of input in, written in language fromL, with its runs in the
\* notation of toL: the numbers of the run in their order, each with the
\* prefix of toL for the prefix of fromL, joined by the separator of toL, and
\* everything else as it is in the text.  The run "7 -8" is part of the first
\* run when nothing but the separator of fromL stands between them.
ExpectedLit(in, fromL, toL) ==
    RunText(in.signs, toL, "source")
      \o (IF in.tail = "none" /\ in.post = "run"
                /\ arrayLiteralConfig[fromL].separator = << " " >>
          THEN arrayLiteralConfig[toL].separator \o PostRun(toL)
          ELSE TailText(in, fromL)
                 \o (CASE in.post = "none" -> << >>
                       [] in.post = "run" -> << " " >> \o PostRun(toL)
                       [] in.post = "nextline" -> << "u000A" >> \o PostRun(toL)))

\* C19: a run of n >= 2 numbers that is recognised in code is emitted as its
\* n numbers in their order, each with its leading source prefix (if it has
\* one) replaced by the target prefix and nothing else changed, joined by the
\* target separator; the text outside the runs is copied as it is.
C19_RunsRewritten ==
    (Returned("translateArrayLiterals") /\ BothKnown
        /\ input.region = "code" /\ Len(input.signs) >= 2 /\ RunRecognised)
    => ret = Returns(ExpectedLit(input, fromLang, toLang))

\* from J to BQN: three numbers, the second negative, then text that is no run
C19_Witness ==
    /\ Returned("translateArrayLiterals")
    /\ fromLang = "j" /\ toLang = "bqn"
    /\ input.region = "code" /\ input.signs = << FALSE, TRUE, FALSE >>
    /\ input.tail = "sepx" /\ input.post = "none"
    /\ RunRecognised
    /\ code = << "1", " ", "_", "2", " ", "3", " ", "x" >>
    /\ ret = Returns(<< "1", "u00E2", "u20AC", "u00BF", "u00C2", "u00AF", "2",
                        "u00E2", "u20AC", "u00BF", "3", " ", "x" >>)

-----------------------------------------------------------------------------
(* A claim about tokens inside longer tokens, checked under SpecPrim *)

\* the tokens the table gives toL for the concepts whose fromL token is t
CounterpartsOf(t, fromL, toL) ==
    {PrimitiveGroupsInit[c][toL].chars :
        c \in {d \in Concepts :
                  /\ PrimitiveGroupsInit[d][fromL] = Str(t)
                  /\ PrimitiveGroupsInit[d][toL].kind = "string"}}

\* C20: for two of the six languages, a token T of the source language that
\* occurs in the text is never rewritten in part: no shorter token is matched
\* inside the occurrence of T, so T comes out whole or as a counterpart of T,
\* also when T has no counterpart in the target language.
C20_NoTokenInsideLonger ==
    (Returned("translatePrimitives") /\ BothKnown /\ fromLang # toLang
        /\ input.wrap = "code" /\ Len(input.toks) = 1
        /\ Str(input.toks[1]) \in {PrimitiveGroupsInit[c][fromLang] : c \in Concepts})
    => ret.value \in {input.toks[1]} \cup CounterpartsOf(input.toks[1], fromLang, toLang)

-----------------------------------------------------------------------------
(* A claim about the maps buildTranslationMap builds, checked under SpecQuery *)

\* the entries of a Map as a set of pairs
PairsOf(m) == {<< m[n].key, m[n].val >> : n \in 1..Len(m)}

\* the pairs of the concepts whose two tokens are there and differ
TablePairs(fromL, toL) ==
    {<< PrimitiveGroupsInit[c][fromL], PrimitiveGroupsInit[c][toL] >> :
        c \in {d \in Concepts : Corresponds(d, fromL, toL)}}

\* C21: for two of the six languages the forward map holds the pairs (source
\* token, target token) of the concepts whose tokens are both there and
\* differ, and no others; no two of these concepts have the same source
\* token, so the map has as many entries as there are such concepts; the
\* backward map is the inverse of the forward map and is the forward map of
\* the pair reversed.
C21_MapsAreExact ==
    (Returned("hasTranslation") /\ BothKnown /\ fromLang # toLang)
    => LET maps == translationCache[CacheKey(fromLang, toLang)]
       IN  /\ PairsOf(maps.forward) = TablePairs(fromLang, toLang)
           /\ Len(maps.forward)
                 = Cardinality({c \in Concepts : Corresponds(c, fromLang, toLang)})
           /\ PairsOf(maps.backward)
                 = {<< p[2], p[1] >> : p \in PairsOf(maps.forward)}
           /\ PairsOf(maps.backward)
                 = PairsOf(buildTranslationMap(toLang, fromLang).forward)

\* the maps from APL to J, which hold the pair of the iota tokens
C21_Witness ==
    /\ Returned("hasTranslation")
    /\ fromLang = "apl" /\ toLang = "j"
    /\ CacheKey("apl", "j") \in DOMAIN translationCache
    /\ Len(translationCache[CacheKey("apl", "j")].forward) >= 2
    /\ << PrimitiveGroupsInit["iota"]["apl"], PrimitiveGroupsInit["iota"]["j"] >>
          \in PairsOf(translationCache[CacheKey("apl", "j")].forward)
    /\ << PrimitiveGroupsInit["iota"]["j"], PrimitiveGroupsInit["iota"]["apl"] >>
          \in PairsOf(translationCache[CacheKey("apl", "j")].backward)

-----------------------------------------------------------------------------
(* Claims about string literals and comments in the scan of                  *)
(* translateArrayLiterals, checked under SpecRegions                         *)

\* what the call makes of the text that follows the string or the comment,
\* when that text is scanned as code
RestAsCode(rest) == translateArrayLiterals(rest, fromLang, toLang).value

-----------------------------------------------------------------------------
(* A claim about the cache while the table stays as it is, checked under     *)
(* SpecCacheFixed                                                            *)

\* every cached map is the map built for its pair, and a call returns what it
\* returns with an empty cache
CacheAgrees ==
    /\ \A key \in DOMAIN translationCache :
          translationCache[key] = buildTranslationMap(key[1], key[2])
    /\ Returned("translatePrimitives")
          => ret = translatePrimitives(<< >>, code, fromLang, toLang)
    /\ Returned("hasTranslation")
          => ret = Returns(hasTranslation(<< >>, fromLang, toLang))

\* a step that is no clear keeps every cached map, and adds at most the map of
\* the pair of the call, only when that pair was not cached
BuiltOnce ==
    \/ translationCache' = << >>
    \/ /\ \A key \in DOMAIN translationCache :
             key \in DOMAIN translationCache'
             /\ translationCache'[key] = translationCache[key]
       /\ DOMAIN translationCache' \ DOMAIN translationCache
             \subseteq {CacheKey(fromLang, toLang)}

\* C24: with the table unchanged, after any calls of translatePrimitives,
\* hasTranslation and clearTranslationCache every cached map equals the map
\* built afresh for its pair, a map is built at most once between two clears,
\* and a call returns the same with a cold cache, a warm cache or after a
\* clear.
C24_CacheConsistent == []CacheAgrees /\ [][BuiltOnce]_vars

\* a call from APL to J has returned while the cache holds two pairs
C24_Witness ==
    /\ Returned("translatePrimitives")
    /\ fromLang = "apl" /\ toLang = "j"
    /\ CacheKey("apl", "j") \in DOMAIN translationCache
    /\ Cardinality(DOMAIN translationCache) = 2
    /\ primitiveGroups = PrimitiveGroupsInit
    /\ ret = Returns(PrimitiveGroupsInit[ChangedConcept]["j"].chars \o NewGlyph)

-----------------------------------------------------------------------------
(* A claim about the scan loop of translateArrayLiterals, checked under      *)
(* SpecLitUnknown                                                            *)

\* from every position of the text the loop goes to a later position, no
\* further than the end of the text
ScanProgresses(text, fromL) ==
    \A i \in 1..Len(text) :
       /\ ScanAdvance(text, i, fromL) > i
       /\ ScanAdvance(text, i, fromL) <= Len(text) + 1

\* C25: translateArrayLiterals ends on every input and never throws: every
\* iteration of its scan loop moves the position forward by at least one
\* character, and the text it returns is finite.
C25_ScanEndsWithoutThrowing ==
    Returned("translateArrayLiterals")
    => /\ ~ret.threw
       /\ fromLang \in DOMAIN arrayLiteralConfig
             => ScanProgresses(code, fromLang)

\* the same for the language ids of arrayLiteralConfig, with the length of
\* the returned text bounded by what the prefixes and separators can add
ScanEndsForKnown ==
    (Returned("translateArrayLiterals") /\ BothKnown)
    => /\ ~ret.threw
       /\ ScanProgresses(code, fromLang)
       /\ Len(ret.value) <= 4 * Len(code)

-----------------------------------------------------------------------------
(* Claims about the store of the permalink server, checked under             *)
(* SpecPermalink                                                             *)

\* no two ids of the store hold the same content
NoDuplicates ==
    \A a, b \in DOMAIN permalinks : permalinks[a] = permalinks[b] => a = b

\* the request of the answer is a POST /p with lang and code
PostOf(resp) ==
    /\ resp.request.method = "POST"
    /\ resp.request.body.json
    /\ resp.request.body.lang # "" /\ resp.request.body.code # ""

\* a POST /p whose content the store holds is answered with the id that holds
\* it, and the store stays as it is
AnswersExisting ==
    (PostOf(response')
        /\ \E key \in DOMAIN permalinks :
              permalinks[key] = Content(response'.request.body))
    => /\ permalinks' = permalinks
       /\ response'.status = 200
       /\ response'.body.success
       /\ response'.body.id \in DOMAIN permalinks
       /\ permalinks[response'.body.id] = Content(response'.request.body)

\* C26: a POST /p whose content is identical to a stored permalink answers
\* with the existing id and adds no entry, so no two different ids ever hold
\* identical content after any sequence of POST requests.
C26_Deduplication == []NoDuplicates /\ [][AnswersExisting]_vars

\* with a later permalink in the store, a POST of the content of the first
\* permalink is answered with the id of the first
C26_Witness ==
    /\ PostOf(response)
    /\ DOMAIN permalinks = {<< "A", "A", "A", "A" >>, << "A", "A", "A", "B" >>}
    /\ permalinks[<< "A", "A", "A", "A" >>] = Content(response.request.body)
    /\ response.status = 200
    /\ response.body = [success |-> TRUE, id |-> << "A", "A", "A", "A" >>]

\* a POST /p answered 500 leaves the store as it was before the request
FailedSaveKeepsStore ==
    (PostOf(response') /\ response'.status = 500)
    => /\ ~response'.body.success
       /\ permalinks' = permalinks

\* every id of the store is the id of a permalink a POST /p answered with
OnlySavedStored ==
    \A c \in DOMAIN permalinks : \E e \in issued : e.id = c

\* the count /health answers is the number of ids POST /p answered with
HealthCountsSaved ==
    (response.request.path = "/health")
    => response.body.count = Cardinality({e.id : e \in issued})

\* C27: when persisting the store fails during POST /p, the request answers
\* 500 with success false and the store in memory is left as it was: the new
\* id is not retrievable by a later GET /p/:code, is not counted by /health,
\* and a later POST of the same content does not answer with that id.
C27_FailedSaveLeavesStore ==
    [](OnlySavedStored /\ HealthCountsSaved) /\ [][FailedSaveKeepsStore]_vars

\* the request is a GET /p/:code
GetOf(req) == req.method = "GET" /\ req.path = "/p/"

\* a GET /p/:code for a code the store does not hold is answered 404
UnknownCodeNotFound ==
    (GetOf(response.request) /\ response.request.code \notin DOMAIN permalinks)
    => /\ "threw" \notin DOMAIN response.body
       /\ response.status = 404
       /\ response.body \in {[success |-> FALSE, error |-> "Not found"],
                              [html |-> "Not found"]}

\* a GET /p/:code leaves the store as it is
GetKeepsStore == GetOf(response'.request) => permalinks' = permalinks

\* C28: GET /p/:code for a code that was neither loaded from storage nor
\* created by POST /p answers 404 (Not found) and leaves the store unchanged,
\* for every code, also one that names an inherited object property such as
\* constructor, and the request handler does not throw.
C28_UnknownCodeNotFound == []UnknownCodeNotFound /\ [][GetKeepsStore]_vars

-----------------------------------------------------------------------------
(* Claims about prefix mode, checked under SpecKeymap *)

\* the prefix key pressed alone in prefix mode keeps its default action, gives
\* nothing to insertText and ends prefix mode
DoublePrefix ==
    (prefixActive /\ PlainPrefixPress(language, event'))
    => /\ ~event'.defaultPrevented
       /\ event'.inserted = << >>
       /\ element' = element
       /\ ~prefixActive'

\* C29: pressing the unmodified prefix key while prefix mode is already
\* active does not prevent the default action, inserts no mapped glyph, and
\* leaves prefix mode inactive.
C29_DoublePrefix == [][DoublePrefix]_vars

\* the backslash of BQN pressed twice: the second press keeps its default
\* action and prefix mode is off
C29_Witness ==
    /\ language = "bqn"
    /\ PlainPrefixPress("bqn", event)
    /\ event.afterPrefix /\ event.prefixPrevented
    /\ ~event.defaultPrevented
    /\ event.inserted = << >>
    /\ ~prefixActive

\* the key of the event has no entry in the keymap, or an empty one
Unmapped(e) ==
    e.key \notin DOMAIN keymap(language) \/ keymap(language)[e.key] = << >>

\* One step of the handler: a blur (the event is none) ends prefix mode; a
\* lone modifier key leaves it as it is; after any other keydown prefix mode
\* is on exactly when the key was the prefix key, pressed with none of shift,
\* ctrl, alt and meta, and the mode was off; and a key the handler does not
\* take for the prefix key, pressed in prefix mode, has its default action
\* prevented, and nothing is inserted when it has no mapping.
OneShot ==
    /\ event'.key = "" => ~prefixActive'
    /\ event'.key \in ModifierKeys
          => prefixActive' = prefixActive /\ element' = element
    /\ (event'.key # "" /\ event'.key \notin ModifierKeys)
          => /\ prefixActive' = (~prefixActive /\ PlainPrefixPress(language, event'))
             /\ (prefixActive /\ ~isPrefixKey(language, event'))
                   => /\ event'.defaultPrevented
                      /\ ~prefixActive'
                      /\ Unmapped(event')
                            => event'.inserted = << >> /\ element' = element

\* C30: prefix mode is one-shot: it is active only between an unmodified
\* prefix keydown made while inactive and the next keydown that is not a lone
\* Shift, Control, Alt or Meta, or the next blur; lone modifier keydowns leave
\* the mode unchanged, blur always deactivates it, and every non-prefix key
\* pressed while it is active has its default action prevented and
\* deactivates it, inserting nothing when the key has no mapping or an empty
\* one.
C30_PrefixModeOneShot == [][OneShot]_vars

\* the same with every key the handler takes for the prefix key, shifted or
\* not, counted as the prefix key
OneShotByCode ==
    /\ event'.key = "" => ~prefixActive'
    /\ event'.key \in ModifierKeys
          => prefixActive' = prefixActive /\ element' = element
    /\ (event'.key # "" /\ event'.key \notin ModifierKeys)
          => /\ prefixActive' =
                   (/\ ~prefixActive
                    /\ isPrefixKey(language, event')
                    /\ ~event'.ctrlKey /\ ~event'.altKey /\ ~event'.metaKey)
             /\ (prefixActive /\ ~isPrefixKey(language, event'))
                   => /\ event'.defaultPrevented
                      /\ ~prefixActive'
                      /\ Unmapped(event')
                            => event'.inserted = << >> /\ element' = element

PrefixModeOneShotByCode == [][OneShotByCode]_vars

=============================================================================
